---- MODULE Spec2Model ----
(***************************************************************************)
(* A model of the AI gateway's dispatch layer: the model registry          *)
(* (core/registry.py), the retry engine (core/retry.py), the router        *)
(* (core/router.py) and the HTTP frontend (api/openai_handler.py and       *)
(* api/openai_handler_safe.py).                                            *)
(*                                                                         *)
(* Python dictionaries are functions whose DOMAIN is the set of keys that  *)
(* are present; dict.get(k, default) is Get(d, k, default).                *)
(***************************************************************************)
EXTENDS Integers, Sequences, FiniteSets, TLC

-----------------------------------------------------------------------------
(* Bounds of the model                                                     *)

MaxRetriesCfg == 2
MaxMsgGroups == 1
MaxValid == 2
MaxChunks == 2
MaxFrames == 2

-----------------------------------------------------------------------------
(* Python helpers                                                          *)

EmptyDict == [k \in {} |-> 0]

Get(d, k, default) == IF k \in DOMAIN d THEN d[k] ELSE default

None == [none |-> TRUE]

-----------------------------------------------------------------------------
(* core/retry.py                                                           *)

\* Which of the substrings tested by is_retryable_error a type name contains.
TypeNameContains ==
    [Exception       |-> {},
     ValueError      |-> {},
     ConnectionError |-> {"ConnectionError"},
     TimeoutError    |-> {"TimeoutError", "Timeout"},
     ClientError     |-> {"ClientError"},
     ReadTimeout     |-> {"Timeout"}]

ErrorTypeNames == DOMAIN TypeNameContains

\* The keyword lists of is_retryable_error; an error message is abstracted to
\* the set of lists it has a keyword of.
KeywordGroups ==
    {"network", "timeout", "ratelimit", "server", "auth", "badrequest", "notfound"}

Errors ==
    [msg : {m \in SUBSET KeywordGroups : Cardinality(m) <= MaxMsgGroups},
     type : ErrorTypeNames]

is_retryable_error(error) ==
    LET error_msg == error.msg
        error_type == TypeNameContains[error.type]
    IN  IF \/ error_msg \cap {"network", "timeout"} # {}
           \/ error_type \cap {"ConnectionError", "TimeoutError", "ClientError"} # {}
        THEN TRUE
        ELSE IF "ratelimit" \in error_msg THEN TRUE
        ELSE IF "server" \in error_msg THEN TRUE
        ELSE IF "timeout" \in error_msg \/ "Timeout" \in error_type THEN TRUE
        ELSE IF "auth" \in error_msg THEN FALSE
        ELSE IF "badrequest" \in error_msg THEN FALSE
        ELSE IF "notfound" \in error_msg THEN FALSE
        ELSE IF error_type \cap {"ConnectionError", "TimeoutError"} # {} THEN TRUE
        ELSE FALSE

DefaultMaxRetries == 3

\* Delays are counted in eightieths of a second, so that a tenth of a second
\* and a sixteenth of every delay used here are whole numbers.
Seconds(n) == n * 80

DefaultInitialDelay == Seconds(1)

DefaultMaxDelay == Seconds(60)

DefaultExponentialBase == 2

create_retry_config_from_dict(config_dict) ==
    [max_retries |-> Get(config_dict, "max_retries", DefaultMaxRetries),
     initial_delay |-> Get(config_dict, "initial_delay", DefaultInitialDelay),
     max_delay |-> Get(config_dict, "max_delay", DefaultMaxDelay),
     exponential_base |-> Get(config_dict, "exponential_base", DefaultExponentialBase),
     jitter |-> Get(config_dict, "jitter", TRUE)]

RetryConfig ==
    [max_retries |-> DefaultMaxRetries, initial_delay |-> DefaultInitialDelay,
     max_delay |-> DefaultMaxDelay, exponential_base |-> DefaultExponentialBase,
     jitter |-> TRUE]

RECURSIVE Pow(_, _)
\* base ** attempt
Pow(base, attempt) == IF attempt = 0 THEN 1 ELSE base * Pow(base, attempt - 1)

Min(a, b) == IF a <= b THEN a ELSE b

Max(a, b) == IF a >= b THEN a ELSE b

\* random.random() as a number of eighths: 0, 1/4, 1/2, 3/4
Randoms == {0, 2, 4, 6}

\* RetryConfig.get_delay without the cap of line 136
get_delay_Uncapped(config, attempt, random) ==
    LET delay == config.initial_delay * Pow(config.exponential_base, attempt)
    IN  IF config.jitter
        THEN Max(Seconds(1) \div 10, delay + (delay * (random - 4)) \div 16)
        ELSE delay

\* RetryConfig.get_delay(attempt), random being the value random.random()
\* returns: delay * 0.25 * (random * 2 - 1) is delay * (eighths - 4) / 16
get_delay(config, attempt, random) ==
    LET delay == Min(config.initial_delay * Pow(config.exponential_base, attempt),
                     config.max_delay)
    IN  IF config.jitter
        THEN Max(Seconds(1) \div 10, delay + (delay * (random - 4)) \div 16)
        ELSE delay

-----------------------------------------------------------------------------
(* Configuration values.  A JSON value whose Python type matters is        *)
(* wrapped as [type, d]; a string field that holds a non-string is the     *)
(* token "<int>", an absent key read with .get(k) is "<None>".             *)

NoneStr == "<None>"

NonStr == "<int>"

JDict(d) == [type |-> "dict", d |-> d]

JOther(t) == [type |-> t, d |-> EmptyDict]

isinstance_dict(v) == v.type = "dict"

\* str.startswith('ENV:')
StartsWithENV(s) == s = "ENV:OPENAI_API_KEY"

\* 'ollama' in s.lower() or 'lmstudio' in s.lower()
IsLocalServiceUrl(s) == s \in {"http://localhost:11434/ollama", "http://lmstudio.local/v1"}

\* any(key.startswith('_') for key in d.keys())
HasCommentKey(d) == "_comment" \in DOMAIN d

-----------------------------------------------------------------------------
(* core/adapter: constructors and is_available                             *)

\* the keys of the converters table of get_converter
ConverterFormats ==
    {"anthropic", "gemini", "zhipu", "baidu", "ali", "alibailian", "tencent",
     "moonshot", "minimax", "doubao", "cohere", "coze", "deepl"}

\* api_key as the HTTP adapters' constructors store it
NormalizedApiKey(config) ==
    LET api_key == Get(config, "api_key", NoneStr)
    IN  IF api_key = "not-needed" \/ api_key = "" \/ StartsWithENV(api_key)
        THEN NoneStr ELSE api_key

OpenAICompatAdapter(config) ==
    [model_id |-> Get(config, "id", "unknown_model"),
     adapter_type |-> "openai_compat",
     config |-> config,
     api_key |-> NormalizedApiKey(config),
     base_url |-> Get(config, "base_url", NoneStr)]

\* get_converter: "raise" when request_format has no .lower() or the
\* converter's constructor fails on a malformed nested config.
get_converter(request_format, config) ==
    IF request_format = NonStr THEN "raise"
    ELSE IF request_format \in ConverterFormats
         THEN IF request_format = "tencent"
                 /\ ~isinstance_dict(Get(config, "config", JDict(EmptyDict)))
              THEN "raise" ELSE request_format
         ELSE NoneStr

\* TRUE when the constructor raises instead of returning an adapter
CustomHTTPAdapterRaises(config) ==
    get_converter(Get(config, "request_format", "openai"), config) \in {"raise", NoneStr}

CustomHTTPAdapter(config) ==
    [model_id |-> Get(config, "id", "unknown_model"),
     adapter_type |-> "custom_http",
     config |-> config,
     api_key |-> NormalizedApiKey(config),
     base_url |-> Get(config, "base_url", NoneStr),
     converter |-> get_converter(Get(config, "request_format", "openai"), config)]

ProcessAdapter(config) ==
    [model_id |-> Get(config, "id", "unknown_model"),
     adapter_type |-> "process",
     config |-> config,
     command |-> Get(config, "command", "")]

XunfeiAdapterRaises(config) ==
    \/ Get(config, "base_url", "") = NonStr
    \/ ~isinstance_dict(Get(config, "config", JDict(EmptyDict)))

XunfeiAdapter(config) ==
    LET api_key == Get(config, "api_key", "")
        nested == Get(config, "config", JDict(EmptyDict)).d
        api_secret == Get(nested, "api_secret", "")
        app_id == Get(nested, "app_id", "")
    IN  [model_id |-> Get(config, "id", "unknown_model"),
         adapter_type |-> "websocket_xunfei",
         config |-> config,
         api_key |-> IF StartsWithENV(api_key) \/ api_key = "not-needed" THEN "" ELSE api_key,
         api_secret |-> IF StartsWithENV(api_secret) \/ api_secret = "not-needed" THEN "" ELSE api_secret,
         app_id |-> IF app_id = "not-needed" THEN "" ELSE app_id,
         ws_url |-> IF Get(config, "base_url", "") = "" THEN "wss://spark-api.xf-yun.com"
                    ELSE Get(config, "base_url", "")]

\* is_available(): "True", "False" or "raise"; host is the environment
\* (importable libraries, commands on the PATH).
is_available(adapter, host) ==
    CASE adapter.adapter_type = "openai_compat" ->
            IF ~host.HAS_AIOHTTP THEN "False"
            ELSE IF adapter.base_url = NonStr THEN "raise"
            ELSE IF adapter.base_url \notin {NoneStr, ""} /\ IsLocalServiceUrl(adapter.base_url)
                 THEN "True"
            ELSE IF adapter.api_key # NoneStr /\ adapter.base_url # NoneStr
                 THEN "True" ELSE "False"
      [] adapter.adapter_type = "custom_http" ->
            IF ~host.HAS_AIOHTTP THEN "False"
            ELSE IF adapter.converter = NoneStr THEN "False"
            ELSE IF adapter.api_key # NoneStr /\ adapter.base_url # NoneStr
                 THEN "True" ELSE "False"
      [] adapter.adapter_type = "process" ->
            IF adapter.command = "" THEN "False"
            ELSE IF adapter.command \in host.commands THEN "True" ELSE "False"
      [] OTHER ->
            IF ~host.HAS_WEBSOCKETS THEN "False"
            ELSE IF adapter.ws_url # "" /\ adapter.api_key # ""
                    /\ adapter.api_secret # "" /\ adapter.app_id # ""
                 THEN "True" ELSE "False"

-----------------------------------------------------------------------------
(* core/registry.py                                                        *)

\* ModelRegistry._create_adapter: None for an unknown type or when the
\* constructor raises.
_create_adapter(adapter_type, config) ==
    IF adapter_type = "openai_compat" THEN OpenAICompatAdapter(config)
    ELSE IF adapter_type = "custom_http"
         THEN IF CustomHTTPAdapterRaises(config) THEN None ELSE CustomHTTPAdapter(config)
    ELSE IF adapter_type = "process" THEN ProcessAdapter(config)
    ELSE IF adapter_type = "websocket" \/ adapter_type = "websocket_xunfei"
         THEN IF XunfeiAdapterRaises(config) THEN None ELSE XunfeiAdapter(config)
    ELSE None

\* self.adapters[model_id] = adapter on an insertion-ordered dict
DictSet(table, model_id, adapter) ==
    IF \E i \in 1..Len(table) : table[i].id = model_id
    THEN [i \in 1..Len(table) |->
            IF table[i].id = model_id THEN [id |-> model_id, adapter |-> adapter]
            ELSE table[i]]
    ELSE Append(table, [id |-> model_id, adapter |-> adapter])

\* self.adapters.get(model_id)
DictGet(table, model_id) ==
    IF \E i \in 1..Len(table) : table[i].id = model_id
    THEN table[CHOOSE i \in 1..Len(table) : table[i].id = model_id].adapter
    ELSE None

\* the loop body without the "enabled" test
LoadEntry_IgnoresEnabled(table, model_config, host) ==
    IF isinstance_dict(model_config) /\ HasCommentKey(model_config.d)
       /\ Get(model_config.d, "id", "") = ""
    THEN table
    ELSE IF ~isinstance_dict(model_config) THEN table
    ELSE LET config == model_config.d
             model_id == Get(config, "id", "")
             adapter_type == Get(config, "adapter", "openai_compat")
         IN  IF model_id = "" THEN table
             ELSE LET adapter == _create_adapter(adapter_type, config)
                  IN  IF adapter = None THEN table
                      ELSE IF is_available(adapter, host) = "True"
                           THEN DictSet(table, model_id, adapter)
                           ELSE table

\* the loop body without the is_available() test
LoadEntry_RegistersUnavailable(table, model_config, host) ==
    IF isinstance_dict(model_config) /\ HasCommentKey(model_config.d)
       /\ Get(model_config.d, "id", "") = ""
    THEN table
    ELSE IF ~isinstance_dict(model_config) THEN table
    ELSE LET config == model_config.d
             model_id == Get(config, "id", "")
             adapter_type == Get(config, "adapter", "openai_compat")
             enabled == Get(config, "enabled", TRUE)
         IN  IF model_id = "" THEN table
             ELSE IF ~enabled THEN table
             ELSE LET adapter == _create_adapter(adapter_type, config)
                  IN  IF adapter = None THEN table
                      ELSE DictSet(table, model_id, adapter)

\* One pass of the body of the loop of ModelRegistry._load_models over the
\* entry model_config: the table after it.
LoadEntry(table, model_config, host) ==
    IF isinstance_dict(model_config) /\ HasCommentKey(model_config.d)
       /\ Get(model_config.d, "id", "") = ""
    THEN table
    ELSE IF ~isinstance_dict(model_config) THEN table
    ELSE LET config == model_config.d
             model_id == Get(config, "id", "")
             adapter_type == Get(config, "adapter", "openai_compat")
             enabled == Get(config, "enabled", TRUE)
         IN  IF model_id = "" THEN table
             ELSE IF ~enabled THEN table
             ELSE LET adapter == _create_adapter(adapter_type, config)
                  IN  IF adapter = None THEN table
                      ELSE IF is_available(adapter, host) = "True"
                           THEN DictSet(table, model_id, adapter)
                           ELSE table

RECURSIVE LoadFrom(_, _, _)
\* the whole loop of _load_models, from the table given
LoadFrom(table, models, host) ==
    IF models = <<>> THEN table
    ELSE LoadFrom(LoadEntry(table, Head(models), host), Tail(models), host)

get_adapter_first(table, model_id) ==
    IF table = <<>> THEN None ELSE table[1].adapter

get_adapter(table, model_id) == DictGet(table, model_id)


-----------------------------------------------------------------------------
(* State                                                                   *)

VARIABLES
    host,          \* what the process finds installed: HAS_AIOHTTP, HAS_WEBSOCKETS, commands
    config_file,   \* models.json: [kind, models]
    adapters,      \* ModelRegistry.adapters, an insertion-ordered dict: <<[id, adapter]>>
    seen,          \* history: what the latest concurrent reader of the registry got
    loader,        \* the thread inside ModelRegistry.reload / _load_models
    route,         \* one call of Router.route and of retry_with_backoff inside it
    calls,         \* history: the adapter.chat calls made by the route call
    sleeps,        \* history: the arguments of get_delay for the asyncio.sleep calls made
    http,          \* the request handler (one AIRequestHandler instance at a time)
    stream,        \* the locals of _handle_stream_response and the upstream generator
    client,        \* the peer of the response socket: "connected" or "gone"
    wire,          \* what has been written to the response socket
    converter,     \* a Baidu or Zhipu converter: its token cache, the clock, the call in progress
    proc           \* one call of ProcessAdapter.chat and the child process it spawns

\* what the requests of the other sections leave alone
hostVars == <<host, converter, proc>>

registryVars == <<hostVars, config_file, adapters, loader, seen>>

routeVars == <<route, calls, sleeps>>

httpVars == <<http, stream, client, wire>>

vars ==
    <<host, config_file, adapters, loader, seen, route, calls, sleeps, http, stream, client, wire,
      converter, proc>>

ModelIds == {"a", "b", "zz"}

NoConfig == [kind |-> "none", models |-> <<>>]

LoaderIdle ==
    [pc |-> "idle", models |-> <<>>, raised |-> FALSE, before |-> <<>>, source |-> NoConfig]

SeenNone ==
    [op |-> "none", model_id |-> "", adapter |-> None, models |-> <<>>, during |-> FALSE]

RouteIdle ==
    [pc |-> "idle", model_id |-> "", adapter |-> None, max_retries |-> 0,
     attempt |-> 0, last_error |-> None, result |-> None]

NoRequest ==
    [method |-> "", path |-> "", content_length |-> "", body |-> "", model |-> "",
     stream |-> FALSE]

HttpIdle(handler) ==
    [pc |-> "idle", handler |-> handler, req |-> NoRequest, response_sent |-> FALSE,
     loop |-> "none", thrown |-> "none", escaped |-> "none"]

\* Budget of an upstream that may go on producing chunks without end
Unbounded == -1

\* scripted, script, tail, pos, usage: an upstream that sends a given sequence
\* of SSE lines, and where chat_stream stands in it. write_failed: the frame
\* on which _write_safe first raised; wrote_after: _write_safe was called
\* again after that. last: the kind of the chunk chat_stream yielded last.
\* attempts: the generators made over adapter.chat_stream; failed: the
\* upstream call raised.
StreamIdle ==
    [pc |-> "idle", model_id |-> "", response_sent |-> FALSE, gen |-> "none",
     done |-> FALSE, iteration |-> 0, budget |-> 0,
     scripted |-> FALSE, script |-> <<>>, tail |-> FALSE, pos |-> 1, usage |-> "none",
     write_failed |-> "none", wrote_after |-> FALSE, last |-> "none",
     attempts |-> 0, failed |-> FALSE]

\* What the client has been sent. heads: the status lines; done_frames, last,
\* after_done, terminal, error, heartbeat, usage_frames, log: the SSE frames;
\* leak: an error body with the substring "api_key" has been written.
WireEmpty ==
    [heads |-> <<>>, done_frames |-> 0, after_done |-> FALSE, last |-> "none",
     terminal |-> FALSE, error |-> FALSE, heartbeat |-> FALSE,
     usage_frames |-> 0, log |-> <<>>, leak |-> FALSE]

\* no converter call and no process call in progress
ConverterIdle == [pc |-> "none"]

ProcessIdle == [pc |-> "none"]

FullHost == [HAS_AIOHTTP |-> TRUE, HAS_WEBSOCKETS |-> TRUE, commands |-> {"/usr/bin/llm"}]

-----------------------------------------------------------------------------
(* core/router.py and core/retry.py: one call of Router.route              *)

ModelNotFound == [msg |-> {"notfound_zh"}, type |-> "ValueError"]

\* adapter_config.get('retry', {})
RetryDictOf(adapter) == Get(adapter.config, "retry", EmptyDict)

\* Router.route entering retry_with_backoff whatever "enabled" says
Route_AlwaysRetries(model_id) ==
    /\ route.pc = "idle"
    /\ LET adapter == get_adapter(adapters, model_id)
       IN  IF adapter = None
           THEN route' = [route EXCEPT !.pc = "done", !.model_id = model_id,
                            !.result = [kind |-> "raise", attempt |-> 0, error |-> ModelNotFound]]
           ELSE route' = [route EXCEPT
                            !.pc = "first",
                            !.model_id = model_id,
                            !.adapter = adapter,
                            !.max_retries =
                                (IF RetryDictOf(adapter) # EmptyDict
                                 THEN create_retry_config_from_dict(RetryDictOf(adapter))
                                 ELSE RetryConfig).max_retries]
    /\ UNCHANGED <<calls, sleeps, registryVars, httpVars>>

\* Router.route up to its first await: resolve the adapter, read the retry
\* settings, enter retry_with_backoff or the single call.
Route(model_id) ==
    /\ route.pc = "idle"
    /\ LET adapter == get_adapter(adapters, model_id)
       IN  IF adapter = None
           THEN route' = [route EXCEPT !.pc = "done", !.model_id = model_id,
                            !.result = [kind |-> "raise", attempt |-> 0, error |-> ModelNotFound]]
           ELSE LET retry_enabled == Get(RetryDictOf(adapter), "enabled", TRUE)
                    retry_config == IF RetryDictOf(adapter) # EmptyDict
                                    THEN create_retry_config_from_dict(RetryDictOf(adapter))
                                    ELSE RetryConfig
                IN  route' = [route EXCEPT
                                !.pc = IF retry_enabled THEN "first" ELSE "once",
                                !.model_id = model_id,
                                !.adapter = adapter,
                                !.max_retries = retry_config.max_retries]
    /\ UNCHANGED <<calls, sleeps, registryVars, httpVars>>

\* The model name in the request an adapter builds for request.model.
\* openai_compat: self.model = config.get('model', self.model_id) goes into
\* the body. custom_http: the converter's self.model, read the same way,
\* goes into the body or the URL. process: the JSON input is built from
\* request.model and the other input formats name no model; the class never
\* reads config['model']. Xunfei: the request names a domain, not a model.
OutboundModel(adapter, request_model) ==
    IF adapter.adapter_type = "openai_compat"
    THEN Get(adapter.config, "model", adapter.model_id)
    ELSE IF adapter.adapter_type = "custom_http"
    THEN Get(adapter.config, "model", Get(adapter.config, "id", "unknown"))
    ELSE IF adapter.adapter_type = "process"
    THEN IF Get(adapter.config, "input_format", "json") = "json"
         THEN request_model ELSE NoneStr
    ELSE NoneStr

\* the record of a call of adapter.chat
Call(adapter, ok) ==
    [adapter |-> adapter.model_id, ok |-> ok,
     model |-> OutboundModel(adapter, route.model_id)]

\* retry disabled: response = await adapter.chat(request); return response
CallOnce ==
    /\ route.pc = "once"
    /\ \/ /\ calls' = Append(calls, Call(route.adapter, TRUE))
          /\ route' = [route EXCEPT !.pc = "done",
                         !.result = [kind |-> "return", attempt |-> Len(calls) + 1]]
       \/ \E e \in Errors :
          /\ calls' = Append(calls, Call(route.adapter, FALSE))
          /\ route' = [route EXCEPT !.pc = "done",
                         !.result = [kind |-> "raise", attempt |-> Len(calls) + 1, error |-> e]]
    /\ UNCHANGED <<sleeps, registryVars, httpVars>>

\* retry_with_backoff, the first attempt (lines 173-182) and the entry of
\* the for loop; an empty range falls through to raise last_error.
FirstAttempt ==
    /\ route.pc = "first"
    /\ \/ /\ calls' = Append(calls, Call(route.adapter, TRUE))
          /\ route' = [route EXCEPT !.pc = "done",
                         !.result = [kind |-> "return", attempt |-> Len(calls) + 1]]
       \/ \E e \in Errors :
          /\ calls' = Append(calls, Call(route.adapter, FALSE))
          /\ LET err == [attempt |-> Len(calls) + 1, error |-> e]
             IN  IF ~is_retryable_error(e)
                 THEN route' = [route EXCEPT !.pc = "done", !.last_error = err,
                                  !.result = [kind |-> "raise", attempt |-> err.attempt, error |-> e]]
                 ELSE IF 0 < route.max_retries
                 THEN route' = [route EXCEPT !.pc = "sleep", !.last_error = err, !.attempt = 0]
                 ELSE route' = [route EXCEPT !.pc = "done", !.last_error = err,
                                  !.result = [kind |-> "raise", attempt |-> err.attempt, error |-> e]]
    /\ UNCHANGED <<sleeps, registryVars, httpVars>>

\* delay = config.get_delay(attempt); on_retry(...); await asyncio.sleep(delay)
BackoffSleep ==
    /\ route.pc = "sleep"
    /\ sleeps' = Append(sleeps, route.attempt)
    /\ route' = [route EXCEPT !.pc = "retry"]
    /\ UNCHANGED <<calls, registryVars, httpVars>>

\* the try of the loop body (lines 198-211) and the loop's next iteration
RetryAttempt_KeepsGoing ==
    /\ route.pc = "retry"
    /\ \/ /\ calls' = Append(calls, Call(route.adapter, TRUE))
          /\ IF route.attempt = route.max_retries - 1
             THEN route' = [route EXCEPT !.pc = "done",
                              !.result = [kind |-> "return", attempt |-> Len(calls) + 1]]
             ELSE route' = [route EXCEPT !.pc = "sleep", !.attempt = @ + 1]
       \/ \E e \in Errors :
          /\ calls' = Append(calls, Call(route.adapter, FALSE))
          /\ LET err == [attempt |-> Len(calls) + 1, error |-> e]
             IN  IF ~is_retryable_error(e) \/ route.attempt = route.max_retries - 1
                 THEN route' = [route EXCEPT !.pc = "done", !.last_error = err,
                                  !.result = [kind |-> "raise", attempt |-> err.attempt, error |-> e]]
                 ELSE route' = [route EXCEPT !.pc = "sleep", !.last_error = err, !.attempt = @ + 1]
    /\ UNCHANGED <<sleeps, registryVars, httpVars>>

RetryAttempt_IgnoresClass ==
    /\ route.pc = "retry"
    /\ \/ /\ calls' = Append(calls, Call(route.adapter, TRUE))
          /\ route' = [route EXCEPT !.pc = "done",
                         !.result = [kind |-> "return", attempt |-> Len(calls) + 1]]
       \/ \E e \in Errors :
          /\ calls' = Append(calls, Call(route.adapter, FALSE))
          /\ LET err == [attempt |-> Len(calls) + 1, error |-> e]
             IN  IF route.attempt = route.max_retries - 1
                 THEN route' = [route EXCEPT !.pc = "done", !.last_error = err,
                                  !.result = [kind |-> "raise", attempt |-> err.attempt, error |-> e]]
                 ELSE route' = [route EXCEPT !.pc = "sleep", !.last_error = err, !.attempt = @ + 1]
    /\ UNCHANGED <<sleeps, registryVars, httpVars>>

RetryAttempt_RaisesFirstError ==
    /\ route.pc = "retry"
    /\ \/ /\ calls' = Append(calls, Call(route.adapter, TRUE))
          /\ route' = [route EXCEPT !.pc = "done",
                         !.result = [kind |-> "return", attempt |-> Len(calls) + 1]]
       \/ \E e \in Errors :
          /\ calls' = Append(calls, Call(route.adapter, FALSE))
          /\ LET err == [attempt |-> Len(calls) + 1, error |-> e]
             IN  IF ~is_retryable_error(e)
                 THEN route' = [route EXCEPT !.pc = "done", !.last_error = err,
                                  !.result = [kind |-> "raise", attempt |-> err.attempt, error |-> e]]
                 ELSE IF route.attempt = route.max_retries - 1
                 THEN route' = [route EXCEPT !.pc = "done",
                                  !.result = [kind |-> "raise", attempt |-> route.last_error.attempt,
                                              error |-> route.last_error.error]]
                 ELSE route' = [route EXCEPT !.pc = "sleep", !.attempt = @ + 1]
    /\ UNCHANGED <<sleeps, registryVars, httpVars>>

RetryAttempt ==
    /\ route.pc = "retry"
    /\ \/ /\ calls' = Append(calls, Call(route.adapter, TRUE))
          /\ route' = [route EXCEPT !.pc = "done",
                         !.result = [kind |-> "return", attempt |-> Len(calls) + 1]]
       \/ \E e \in Errors :
          /\ calls' = Append(calls, Call(route.adapter, FALSE))
          /\ LET err == [attempt |-> Len(calls) + 1, error |-> e]
             IN  IF ~is_retryable_error(e)
                 THEN route' = [route EXCEPT !.pc = "done", !.last_error = err,
                                  !.result = [kind |-> "raise", attempt |-> err.attempt, error |-> e]]
                 ELSE IF route.attempt = route.max_retries - 1
                 THEN route' = [route EXCEPT !.pc = "done", !.last_error = err,
                                  !.result = [kind |-> "raise", attempt |-> err.attempt, error |-> e]]
                 ELSE route' = [route EXCEPT !.pc = "sleep", !.last_error = err, !.attempt = @ + 1]
    /\ UNCHANGED <<sleeps, registryVars, httpVars>>


-----------------------------------------------------------------------------
(* The router and the retry engine under a fixed registry                  *)

\* the values of a binding's "retry" key
RetryDicts ==
    {EmptyDict}
    \cup {[enabled |-> e] : e \in BOOLEAN}
    \cup {[max_retries |-> n] : n \in 0..MaxRetriesCfg}
    \cup {[enabled |-> e, max_retries |-> n] : e \in BOOLEAN, n \in 0..MaxRetriesCfg}

BindingA ==
    [id |-> "a", adapter |-> "openai_compat", api_key |-> "sk-1",
     base_url |-> "https://api.example/v1"]

BindingB ==
    [id |-> "b", adapter |-> "custom_http", request_format |-> "anthropic",
     api_key |-> "sk-2", base_url |-> "https://claude.example"]

\* bindings that name the upstream model
UpstreamNamed ==
    {<<JDict(BindingA @@ [model |-> "gpt-4o"]), JDict(BindingB @@ [model |-> "claude-3"])>>,
     <<JDict(BindingA @@ [model |-> "gpt-4o"]),
       JDict([id |-> "b", adapter |-> "process", command |-> "/usr/bin/llm",
              model |-> "llama-3"])>>}

RouteConfigs ==
    {<<JDict(BindingA), JDict(BindingB)>>}
    \cup UpstreamNamed
    \cup {<<JDict(BindingA @@ [retry |-> r]), JDict(BindingB)>> : r \in RetryDicts}
    \cup {<<JDict(BindingB), JDict(BindingA @@ [retry |-> r])>> : r \in RetryDicts}

InitRetry ==
    /\ host = FullHost
    /\ converter = ConverterIdle
    /\ proc = ProcessIdle
    /\ \E models \in RouteConfigs :
          /\ config_file = [kind |-> "ok", models |-> models]
          /\ adapters = LoadFrom(<<>>, models, host)
    /\ loader = LoaderIdle
    /\ seen = SeenNone
    /\ route = RouteIdle
    /\ calls = <<>>
    /\ sleeps = <<>>
    /\ http = HttpIdle("main")
    /\ stream = StreamIdle
    /\ client = "connected"
    /\ wire = WireEmpty

NextRetry ==
    \/ \E model_id \in ModelIds : Route(model_id)
    \/ CallOnce
    \/ FirstAttempt
    \/ BackoffSleep
    \/ RetryAttempt

SpecRetry == InitRetry /\ [][NextRetry]_vars

\* the route call went through retry_with_backoff
Retrying == route.pc \in {"first", "sleep", "retry"} \/ (route.pc = "done" /\ route.last_error # None)
             \/ (route.pc = "done" /\ route.result.kind = "return" /\ route.adapter # None
                 /\ Get(RetryDictOf(route.adapter), "enabled", TRUE))

\* C2: with retry enabled, a successful attempt is the last attempt made: it
\* comes after k retryable failures as attempt k+1, its response is what
\* route returns, and while at most max_retries attempts have failed with
\* retryable errors the engine has not given up.
C2_SuccessEndsRetry ==
    /\ \A i \in 1..Len(calls) :
          calls[i].ok =>
             /\ i = Len(calls)
             /\ route.pc = "done"
             /\ route.result = [kind |-> "return", attempt |-> i]
             /\ Len(sleeps) = i - 1
    /\ (/\ route.pc # "idle" /\ route.adapter # None
        /\ Get(RetryDictOf(route.adapter), "enabled", TRUE)
        /\ \A i \in 1..Len(calls) : ~calls[i].ok
        /\ Len(calls) <= route.max_retries
        /\ (route.last_error # None => is_retryable_error(route.last_error.error)))
       => route.pc \in {"first", "sleep", "retry"}

C2_Witness ==
    /\ route.pc = "done"
    /\ route.max_retries = DefaultMaxRetries
    /\ Len(calls) = 4
    /\ route.result = [kind |-> "return", attempt |-> 4]
    /\ \A i \in 1..3 : ~calls[i].ok

\* C3: a non-retryable error ends the retry engine at once: it is the error
\* raised, its attempt is the last attempt and no sleep follows it.
C3_NonRetryableStops ==
    (route.last_error # None /\ ~is_retryable_error(route.last_error.error)) =>
        /\ route.pc = "done"
        /\ route.result = [kind |-> "raise", attempt |-> Len(calls),
                           error |-> route.last_error.error]
        /\ route.last_error.attempt = Len(calls)
        /\ Len(sleeps) = Len(calls) - 1

C3_Witness ==
    /\ route.pc = "done"
    /\ Len(calls) = 2
    /\ Len(sleeps) = 1
    /\ route.max_retries >= 2
    /\ route.result.kind = "raise"
    /\ ~is_retryable_error(route.result.error)

\* C4: when route ends by raising a retryable error out of the retry engine,
\* exactly max_retries + 1 attempts were made and the error raised is the
\* one of the last attempt.
C4_ExhaustedRetries ==
    (/\ route.pc = "done" /\ route.last_error # None
     /\ route.result.kind = "raise" /\ is_retryable_error(route.result.error)) =>
        /\ Len(calls) = route.max_retries + 1
        /\ Len(sleeps) = route.max_retries
        /\ route.result.attempt = Len(calls)
        /\ route.result.error = route.last_error.error
        /\ route.last_error.attempt = Len(calls)

C4_Witness ==
    /\ route.pc = "done"
    /\ route.last_error # None
    /\ route.result.kind = "raise"
    /\ is_retryable_error(route.result.error)
    /\ route.max_retries = 2
    /\ Len(calls) = 3

\* C9: every adapter.chat call of a route call is made on the adapter that
\* the registry holds under the requested model id; a route call that ends
\* with an adapter registered has called it; with no adapter under that id
\* route raises model-not-found with no adapter call and no sleep.
C9_RoutesToRegistered ==
    /\ \A i \in 1..Len(calls) :
          /\ calls[i].adapter = route.model_id
          /\ get_adapter(adapters, route.model_id) # None
          /\ get_adapter(adapters, route.model_id).model_id = calls[i].adapter
    /\ (route.pc = "done" /\ (\E i \in 1..Len(adapters) : adapters[i].id = route.model_id))
          => Len(calls) >= 1
    /\ (route.pc = "done" /\ ~(\E i \in 1..Len(adapters) : adapters[i].id = route.model_id))
          => /\ calls = <<>>
             /\ sleeps = <<>>
             /\ route.result = [kind |-> "raise", attempt |-> 0, error |-> ModelNotFound]

C9_Witness ==
    /\ route.pc = "done"
    /\ route.model_id = "b"
    /\ Len(adapters) = 2
    /\ adapters[1].id = "a"
    /\ Len(calls) >= 2

C9_WitnessNotFound ==
    /\ route.pc = "done"
    /\ route.model_id = "zz"
    /\ Len(adapters) = 2

-----------------------------------------------------------------------------
(* api/openai_handler.py, api/openai_handler_safe.py: the SSE stream       *)

max_iterations == 10000

\* self.wfile.write of one SSE frame reaching a connected client
WriteFrame(w, kind) ==
    [w EXCEPT !.after_done = @ \/ (w.done_frames > 0),
              !.done_frames = IF kind = "done" THEN (IF @ < 3 THEN @ + 1 ELSE @) ELSE @,
              !.terminal = @ \/ kind = "terminal",
              !.error = @ \/ kind = "error",
              !.heartbeat = @ \/ kind = "heartbeat",
              !.last = kind]

\* _send_stream_error / _send_stream_error_safe: an error frame, then [DONE];
\* a failed write is swallowed
SendStreamError(w) ==
    IF client = "connected" THEN WriteFrame(WriteFrame(w, "error"), "done") ELSE w

\* send_response(status) ... end_headers() and, for an error, the envelope
WriteHead(w, status, type) ==
    [w EXCEPT !.heads = Append(@, [status |-> status, type |-> type])]

\* the SSE preamble (lines 473-484); a failed write returns from the handler
StreamPreamble ==
    /\ stream.pc = "preamble"
    /\ IF client = "connected"
       THEN /\ wire' = WriteHead(wire, 200, "none")
            /\ stream' = [stream EXCEPT !.pc = "lookup", !.response_sent = TRUE]
       ELSE /\ wire' = wire
            /\ stream' = [stream EXCEPT !.pc = "end"]
    /\ UNCHANGED <<registryVars, routeVars, http, client>>

\* the adapter looked up through Router.route and its retry engine
StreamGetAdapter_ThroughRouter ==
    /\ stream.pc = "lookup"
    /\ IF get_adapter(adapters, stream.model_id) = None
       THEN /\ wire' = SendStreamError(wire)
            /\ stream' = [stream EXCEPT !.pc = "end"]
            /\ route' = route
       ELSE /\ wire' = wire
            /\ stream' = [stream EXCEPT !.pc = "loop", !.gen = "live", !.attempts = @ + 1]
            /\ route' = [route EXCEPT !.pc = "first", !.model_id = stream.model_id,
                                      !.adapter = get_adapter(adapters, stream.model_id),
                                      !.max_retries = RetryConfig.max_retries]
    /\ UNCHANGED <<registryVars, calls, sleeps, http, client>>

\* adapter = self.router.registry.get_adapter(model_id) (lines 486-494) and
\* generator = stream_generator()
StreamGetAdapter ==
    /\ stream.pc = "lookup"
    /\ IF get_adapter(adapters, stream.model_id) = None
       THEN /\ wire' = SendStreamError(wire)
            /\ stream' = [stream EXCEPT !.pc = "end"]
       ELSE /\ wire' = wire
            /\ stream' = [stream EXCEPT !.pc = "loop", !.gen = "live", !.attempts = @ + 1]
    /\ UNCHANGED <<registryVars, routeVars, http, client>>

\* The lines of an upstream SSE body. kind: "content" (choices with a delta
\* and no finish_reason), "finish" (choices with a finish_reason), "empty"
\* (choices absent or []), "garbage" (not JSON), "done" (data: [DONE]);
\* usage: the "usage" member is absent, null or an object.
JsonFrames == [kind : {"content", "finish", "empty"}, usage : {"absent", "null", "value"}]

GarbageFrame == [kind |-> "garbage", usage |-> "absent"]

DoneFrame == [kind |-> "done", usage |-> "absent"]

Frames == JsonFrames \cup {GarbageFrame, DoneFrame}

\* a chunk yielded by chat_stream: src is the upstream line it was made from
\* (0 for a chunk the adapter made up), usage whether it carries a usage
\* object; pos and captured are the generator's position and its usage
\* variable after the yield
Yield(kind, src, usage, pos, captured) ==
    [kind |-> kind, src |-> src, usage |-> usage, pos |-> pos, captured |-> captured]

\* the generator has returned
EndPos(script) == Len(script) + 3

RECURSIVE ReadFrom(_, _, _, _)
\* OpenAICompatAdapter.chat_stream from the line at pos up to its next yield
\* or its return. With tail the last line has no newline and is left in the
\* buffer for the code after the loop. Positions past the lines: the
\* leftover buffer, then the closing chunk, then the end.
ReadFrom(script, tail, pos, usage) ==
    LET lines == Len(script) - (IF tail THEN 1 ELSE 0)
        stop == Yield("stop", 0, FALSE, EndPos(script), usage)
        chunk_kind(f) == IF f.kind = "finish" THEN "terminal"
                         ELSE IF f.kind = "content" THEN "content" ELSE "nochoices"
    IN  IF pos <= lines
        THEN LET f == script[pos]
                 captured == IF f.usage = "absent" THEN usage
                             ELSE IF f.usage = "value" THEN "value" ELSE "none"
             IN  IF f.kind = "done"
                 THEN IF usage = "value"
                      THEN Yield("terminal", 0, TRUE, EndPos(script), usage)
                      ELSE stop
                 ELSE IF f.kind = "garbage"
                 THEN ReadFrom(script, tail, pos + 1, usage)
                 ELSE IF f.kind = "empty" /\ captured # "value"
                 THEN ReadFrom(script, tail, pos + 1, captured)
                 ELSE Yield(chunk_kind(f), pos, f.usage = "value", pos + 1, captured)
        ELSE IF pos = lines + 1
        THEN IF tail /\ script[Len(script)].kind \in {"content", "finish"}
             THEN Yield(chunk_kind(script[Len(script)]), Len(script),
                        script[Len(script)].usage = "value", pos + 1, usage)
             ELSE ReadFrom(script, tail, pos + 1, usage)
        ELSE IF pos = lines + 2
        THEN IF usage = "none"
             THEN Yield("terminal", 0, FALSE, EndPos(script), usage)
             ELSE stop
        ELSE stop

\* the same generator, starting again from the line it has just yielded
chat_stream_Replays(script, tail, pos, usage) ==
    [ReadFrom(script, tail, pos, usage) EXCEPT !.pos = pos]

\* one __anext__() of OpenAICompatAdapter.chat_stream
chat_stream(script, tail, pos, usage) ==
    ReadFrom(script, tail, pos, usage)

\* the chunk the scripted upstream leads to next
NextChunk == chat_stream(stream.script, stream.tail, stream.pos, stream.usage)

\* What generator.__anext__() under wait_for(..., 30) can do next.
\*   content, nochoices, badchoice: a chunk without finish_reason (choices
\*     non-empty, empty, or with a first element that is not an object)
\*   terminal: a chunk with a finish_reason
\*   error: the adapter raises and stream_generator yields its error chunk
\*   stop: StopAsyncIteration;  raise: another Exception
\*   timeout: wait_for cancels the pending __anext__, which ends the generator
\* A scripted upstream yields what chat_stream makes of its lines, stalls
\* (timeout) or breaks (error).
AnextOutcomes ==
    IF stream.gen = "live"
    THEN IF stream.scripted
         THEN {NextChunk.kind, "error", "timeout"}
         ELSE (IF stream.budget # 0 THEN {"content", "nochoices"} ELSE {})
              \cup {"terminal", "badchoice", "error", "stop", "raise", "timeout"}
    ELSE {"stop", "raise"}

\* the outcome is the next chunk, or the end, of a scripted upstream
FromScript(o) == stream.scripted /\ stream.gen = "live" /\ o \notin {"error", "timeout"}

IsChunk(o) == o \in {"content", "nochoices", "badchoice", "terminal", "error"}

\* the generator after the outcome
GenAfter(o) ==
    IF stream.gen # "live" THEN stream.gen
    ELSE IF o \in {"stop", "raise"} THEN "finished"
    ELSE IF o = "timeout" THEN "cancelled"
    ELSE "live"

\* the frames one pass of the while loop writes to a connected client
IterationWrites(w, o) ==
    IF o = "stop" THEN WriteFrame(w, "done")
    ELSE IF o = "timeout" THEN WriteFrame(w, "heartbeat")
    ELSE IF o = "raise" THEN SendStreamError(w)
    ELSE IF o = "terminal" THEN WriteFrame(WriteFrame(w, "terminal"), "done")
    ELSE IF o = "error"
    THEN [WriteFrame(WriteFrame(w, "terminal"), "done") EXCEPT !.error = TRUE]
    ELSE IF o = "badchoice" THEN SendStreamError(WriteFrame(w, "data"))
    ELSE WriteFrame(w, "data")

\* what the data frame of a chunk (lines 570-584) holds: the upstream line it
\* repeats, and "usage" if chunk.usage is set
ChunkWrites(w, chunk) ==
    [w EXCEPT !.log = IF chunk.src # 0 THEN Append(@, chunk.src) ELSE @,
              !.usage_frames = IF chunk.usage /\ @ < 2 THEN @ + 1 ELSE @]

\* the first frame one pass of the loop hands to _write_safe
FirstFrame(o) ==
    IF o = "stop" THEN "done"
    ELSE IF o = "timeout" THEN "heartbeat"
    ELSE IF o = "raise" THEN "error"
    ELSE "chunk"

\* done after one pass of the loop: every failed write and every branch but
\* a heartbeat and a chunk without finish_reason end the loop
IterationDone(o) ==
    \/ client # "connected"
    \/ o \in {"stop", "raise", "terminal", "error", "badchoice"}

\* one pass of the while loop (lines 526-606)
StreamIterate ==
    /\ stream.pc = "loop"
    /\ ~stream.done /\ stream.iteration < max_iterations
    /\ \E o \in AnextOutcomes :
          /\ stream' = [stream EXCEPT
                          !.iteration = @ + 1,
                          !.gen = GenAfter(o),
                          !.budget = IF IsChunk(o) /\ @ > 0 THEN @ - 1 ELSE @,
                          !.pos = IF FromScript(o) THEN NextChunk.pos ELSE @,
                          !.usage = IF FromScript(o) THEN NextChunk.captured ELSE @,
                          !.last = IF FromScript(o) THEN o ELSE @,
                          !.failed = @ \/ (stream.gen = "live" /\ o \in {"error", "raise"}),
                          !.write_failed = IF client # "connected" /\ @ = "none"
                                           THEN FirstFrame(o) ELSE @,
                          !.wrote_after = @ \/ stream.write_failed # "none",
                          !.done = IterationDone(o)]
          /\ wire' = IF client # "connected" THEN wire
                     ELSE IF FromScript(o) /\ IsChunk(o)
                     THEN ChunkWrites(IterationWrites(wire, o), NextChunk)
                     ELSE IterationWrites(wire, o)
    /\ UNCHANGED <<registryVars, routeVars, http, client>>

\* a loop that ends at the bound without a word
GuardWrites_Silent(w) == w

\* after the loop (lines 608-613): the guard's [DONE]
GuardWrites(w) ==
    IF stream.iteration >= max_iterations /\ client = "connected"
    THEN WriteFrame(w, "done") ELSE w

StreamAfterLoop ==
    /\ stream.pc = "loop"
    /\ stream.done \/ stream.iteration >= max_iterations
    /\ wire' = GuardWrites(wire)
    /\ stream' = [stream EXCEPT
                    !.pc = IF http.handler = "main" THEN "finally" ELSE "end",
                    !.write_failed = IF stream.iteration >= max_iterations
                                        /\ client # "connected" /\ @ = "none"
                                     THEN "done" ELSE @,
                    !.wrote_after = @ \/ (stream.iteration >= max_iterations
                                            /\ stream.write_failed # "none")]
    /\ UNCHANGED <<registryVars, routeVars, http, client>>

\* finally: generator.aclose() (lines 614-640, openai_handler.py only)
StreamFinally ==
    /\ stream.pc = "finally"
    /\ stream' = [stream EXCEPT !.pc = "end", !.gen = "closed"]
    /\ UNCHANGED <<registryVars, routeVars, http, client, wire>>

\* the client goes away; every later write fails with a broken pipe
ClientDisconnect ==
    /\ client = "connected"
    /\ http.pc \notin {"idle", "finished", "crashed"}
    /\ client' = "gone"
    /\ UNCHANGED <<registryVars, routeVars, http, stream, wire>>

-----------------------------------------------------------------------------
(* The stream handler alone, in front of an upstream of any length         *)

InitStream ==
    /\ host = FullHost
    /\ converter = ConverterIdle
    /\ proc = ProcessIdle
    /\ config_file = [kind |-> "ok", models |-> <<JDict(BindingA), JDict(BindingB)>>]
    /\ adapters = LoadFrom(<<>>, config_file.models, host)
    /\ loader = LoaderIdle
    /\ seen = SeenNone
    /\ route = RouteIdle
    /\ calls = <<>>
    /\ sleeps = <<>>
    /\ \E handler \in {"main", "safe"} :
          http = [HttpIdle(handler) EXCEPT !.pc = "stream", !.loop = "open"]
    /\ \E model_id \in ModelIds :
          stream = [StreamIdle EXCEPT !.pc = "preamble", !.model_id = model_id,
                                      !.budget = Unbounded]
    /\ client = "connected"
    /\ wire = WireEmpty

NextStream ==
    \/ StreamPreamble
    \/ StreamGetAdapter
    \/ StreamIterate
    \/ StreamAfterLoop
    \/ StreamFinally
    \/ ClientDisconnect

SpecStream == InitStream /\ [][NextStream]_vars

\* C1: a stream that was opened and whose client stayed connected ends with
\* exactly one [DONE] frame, written last.
C1_ExactlyOneDone ==
    (stream.pc = "end" /\ stream.response_sent /\ client = "connected") =>
        /\ wire.done_frames = 1
        /\ ~wire.after_done
        /\ wire.last = "done"

-----------------------------------------------------------------------------
(* core/registry.py: reload() step by step, next to concurrent readers     *)

\* _create_default_config writes two bindings whose api_key is an ENV:
\* placeholder
DefaultConfig ==
    [kind |-> "ok",
     models |-> <<JDict([id |-> "gpt-3.5-turbo", adapter |-> "openai_compat",
                         base_url |-> "https://api.openai.com/v1",
                         api_key |-> "ENV:OPENAI_API_KEY", enabled |-> TRUE]),
                  JDict([id |-> "deepseek-chat", adapter |-> "openai_compat",
                         base_url |-> "https://api.deepseek.com/v1",
                         api_key |-> "ENV:OPENAI_API_KEY", enabled |-> TRUE])>>]

\* _load_models on an empty table, as a function of the file: the table it
\* leaves.  A file that is not JSON leaves the table empty.
LoadResult(config, h) ==
    IF config.kind = "ok" THEN LoadFrom(<<>>, config.models, h)
    ELSE IF config.kind = "missing" THEN LoadFrom(<<>>, DefaultConfig.models, h)
    ELSE <<>>

\* get_model_info() naming the configured "adapter" as the owner
get_model_info_OwnedByConfigured(adapter) ==
    [id |-> adapter.model_id, object |-> "model", created |-> 0,
     owned_by |-> Get(adapter.config, "adapter", "openai_compat")]

\* adapter.get_model_info()
get_model_info(adapter) ==
    [id |-> adapter.model_id, object |-> "model", created |-> 0,
     owned_by |-> adapter.adapter_type]

\* ModelRegistry.list_models: the "data" list
list_models(table) == [i \in 1..Len(table) |-> get_model_info(table[i].adapter)]

\* reload(): self.adapters.clear()
ReloadClear ==
    /\ loader.pc = "idle"
    /\ adapters' = <<>>
    /\ loader' = [loader EXCEPT !.pc = "read", !.before = adapters, !.raised = FALSE]
    /\ seen' = SeenNone
    /\ UNCHANGED <<hostVars, config_file, routeVars, httpVars>>

\* _load_models up to the loop (lines 88-99): the file is created when it
\* is missing, opened and parsed; a file that is not JSON takes the outer
\* handler, whose config.get raises on the unbound name; a JSON value that
\* is not an object has no get, at line 99 and again in the outer handler
LoadRead ==
    /\ loader.pc = "read"
    /\ IF config_file.kind = "missing"
       THEN /\ config_file' = DefaultConfig
            /\ loader' = [loader EXCEPT !.pc = "loop", !.models = DefaultConfig.models,
                                        !.source = DefaultConfig]
       ELSE IF config_file.kind = "ok"
       THEN /\ config_file' = config_file
            /\ loader' = [loader EXCEPT !.pc = "loop", !.models = config_file.models,
                                        !.source = config_file]
       ELSE /\ config_file' = config_file
            /\ loader' = [loader EXCEPT !.pc = "idle", !.raised = TRUE,
                                        !.source = config_file]
    /\ UNCHANGED <<hostVars, adapters, seen, routeVars, httpVars>>

\* one pass of the loop of _load_models (lines 101-147)
LoadStep ==
    /\ loader.pc = "loop"
    /\ loader.models # <<>>
    /\ adapters' = LoadEntry(adapters, Head(loader.models), host)
    /\ loader' = [loader EXCEPT !.models = Tail(@)]
    /\ UNCHANGED <<hostVars, config_file, seen, routeVars, httpVars>>

\* the loop is exhausted: _load_models and reload return
LoadFinish ==
    /\ loader.pc = "loop"
    /\ loader.models = <<>>
    /\ loader' = [loader EXCEPT !.pc = "idle"]
    /\ UNCHANGED <<hostVars, config_file, adapters, seen, routeVars, httpVars>>

\* another worker calls registry.get_adapter(model_id)
ReadGetAdapter(model_id) ==
    /\ seen' = [SeenNone EXCEPT !.op = "get_adapter", !.model_id = model_id,
                                !.adapter = get_adapter(adapters, model_id),
                                !.during = (loader.pc # "idle")]
    /\ UNCHANGED <<hostVars, config_file, adapters, loader, routeVars, httpVars>>

\* another worker calls registry.list_models()
ReadListModels ==
    /\ seen' = [SeenNone EXCEPT !.op = "list_models",
                                !.models = list_models(adapters),
                                !.during = (loader.pc # "idle")]
    /\ UNCHANGED <<hostVars, config_file, adapters, loader, routeVars, httpVars>>

\* the operator edits models.json between two reloads
ConfigWrite(c) ==
    /\ loader.pc = "idle"
    /\ c # config_file
    /\ config_file' = c
    /\ seen' = SeenNone
    /\ UNCHANGED <<hostVars, adapters, loader, routeVars, httpVars>>

-----------------------------------------------------------------------------
(* The registry over configurations with at most one malformed binding     *)

BindingP == [id |-> "p", adapter |-> "process", command |-> "/usr/bin/llm"]

ValidBindings == {BindingA, BindingB, BindingP}

NotAnObject == JOther("str")

MissingId ==
    JDict([adapter |-> "openai_compat", api_key |-> "sk-9",
           base_url |-> "https://m.example/v1"])

UnknownAdapter ==
    JDict([id |-> "m", adapter |-> "grpc", api_key |-> "sk-9",
           base_url |-> "https://m.example/v1"])

MissingCredentials ==
    JDict([id |-> "m", adapter |-> "openai_compat", base_url |-> "https://m.example/v1"])

PlaceholderCredentials ==
    JDict([id |-> "a", adapter |-> "custom_http", request_format |-> "gemini",
           api_key |-> "ENV:OPENAI_API_KEY", base_url |-> "https://m.example/v1"])

ConverterNotFound ==
    JDict([id |-> "m", adapter |-> "custom_http", request_format |-> "soap",
           api_key |-> "sk-9", base_url |-> "https://m.example/v1"])

ConstructorRaising ==
    JDict([id |-> "m", adapter |-> "websocket", api_key |-> "sk-9", base_url |-> NonStr])

AvailabilityRaising ==
    JDict([id |-> "m", adapter |-> "openai_compat", api_key |-> "sk-9",
           base_url |-> NonStr])

MalformedEntries ==
    {NotAnObject, MissingId, UnknownAdapter, MissingCredentials, PlaceholderCredentials,
     ConverterNotFound, ConstructorRaising, AvailabilityRaising}

\* the orders of at most MaxValid distinct valid bindings
ValidSeqs ==
    {s \in UNION {[1..n -> {JDict(b) : b \in ValidBindings}] : n \in 0..MaxValid} :
        \A i, j \in 1..Len(s) : s[i] = s[j] => i = j}

InsertAt(s, i, x) == SubSeq(s, 1, i) \o <<x>> \o SubSeq(s, i + 1, Len(s))

OneMalformedConfigs ==
    UNION {{[kind |-> "ok", models |-> InsertAt(s, i, x)] :
                i \in 0..Len(s), x \in MalformedEntries} : s \in ValidSeqs}

AllValidConfigs == {[kind |-> "ok", models |-> s] : s \in ValidSeqs}

\* "enabled": false on a binding that is otherwise valid
DisabledBinding == JDict(BindingB @@ [enabled |-> FALSE])

\* a process binding whose command is not on the PATH
CommandNotFound == JDict([id |-> "p", adapter |-> "process", command |-> "/opt/absent"])

\* a Xunfei Spark binding with its three credentials
BindingW ==
    [id |-> "w", adapter |-> "websocket", api_key |-> "k-3",
     config |-> JDict([api_secret |-> "s-3", app_id |-> "app-3"])]

Rewrites ==
    {[kind |-> "ok", models |-> <<JDict(BindingA)>>],
     [kind |-> "ok", models |-> <<JDict(BindingW), JDict(BindingP), JDict(BindingA)>>],
     [kind |-> "ok", models |-> <<DisabledBinding, JDict(BindingA), CommandNotFound>>],
     [kind |-> "ok", models |-> <<JDict(BindingB), MissingCredentials, JDict(BindingA)>>],
     [kind |-> "invalid_json", models |-> <<>>],
     [kind |-> "non_object", models |-> <<>>],
     [kind |-> "missing", models |-> <<>>]}

InitRegistry ==
    /\ host = FullHost
    /\ converter = ConverterIdle
    /\ proc = ProcessIdle
    /\ config_file \in OneMalformedConfigs \cup AllValidConfigs
    /\ adapters = LoadResult(config_file, host)
    /\ loader = [LoaderIdle EXCEPT !.source = config_file]
    /\ seen = SeenNone
    /\ route = RouteIdle
    /\ calls = <<>>
    /\ sleeps = <<>>
    /\ http = HttpIdle("main")
    /\ stream = StreamIdle
    /\ client = "connected"
    /\ wire = WireEmpty

NextRegistry ==
    \/ ReloadClear
    \/ LoadRead
    \/ LoadStep
    \/ LoadFinish
    \/ \E model_id \in ModelIds : ReadGetAdapter(model_id)
    \/ ReadListModels
    \/ \E c \in Rewrites : ConfigWrite(c)

SpecRegistry == InitRegistry /\ [][NextRegistry]_vars

\* the table a reload in progress, or just finished, ends with
PostReload == LoadResult(config_file, host)

ValidOf(config) == SelectSeq(config.models, LAMBDA e : e \in {JDict(b) : b \in ValidBindings})

\* C7: a load of a configuration with one malformed binding among valid ones
\* returns normally and registers exactly the valid bindings, in file order.
C7_LoadIsolatesMalformed ==
    (loader.pc = "idle" /\ loader.source \in OneMalformedConfigs) =>
        /\ ~loader.raised
        /\ Len(adapters) = Len(ValidOf(loader.source))
        /\ \A i \in 1..Len(adapters) :
              /\ adapters[i].id = ValidOf(loader.source)[i].d.id
              /\ adapters[i].adapter.config = ValidOf(loader.source)[i].d
              /\ adapters[i].adapter.model_id = adapters[i].id

C7_Witness ==
    /\ loader.pc = "idle"
    /\ loader.source \in OneMalformedConfigs
    /\ Len(loader.source.models) = 3
    /\ loader.source.models[2] = ConstructorRaising
    /\ loader.before # <<>>
    /\ Len(adapters) = 2

-----------------------------------------------------------------------------
(* api/openai_handler.py, api/openai_handler_safe.py: one request          *)

ChatPath == "/v1/chat/completions"

GetRequests ==
    {[NoRequest EXCEPT !.method = "GET", !.path = p] :
        p \in {"/v1/models", "/health", "/reload", "/nowhere"}}

OptionsRequests == {[NoRequest EXCEPT !.method = "OPTIONS", !.path = ChatPath]}

\* a model id that no binding has and that contains the substring "api_key"
LeakyModelId == "my_api_key_model"

RequestModels == {NoneStr, "", "p", LeakyModelId} \cup ModelIds

\* content_length: the Content-Length header; body: what the body bytes are;
\* model: the "model" member of a JSON object body
PostRequests ==
    [method : {"POST"},
     path : {ChatPath, "/nowhere"},
     content_length : {"absent", "zero", "nonnumeric", "positive"},
     body : {"invalid_utf8", "invalid_json", "non_object", "object"},
     model : RequestModels,
     stream : BOOLEAN]

Requests == GetRequests \cup OptionsRequests \cup PostRequests

\* _send_error's envelope type
ErrorType(status) == IF status < 500 THEN "invalid_request_error" ELSE "server_error"

\* _send_error / _send_error_safe, _send_json_response: a write to a client
\* that is gone fails and the failure is swallowed
SendError(w, status) ==
    IF client = "connected" THEN WriteHead(w, status, ErrorType(status)) ELSE w

SendJson(w) == IF client = "connected" THEN WriteHead(w, 200, "none") ELSE w

\* BaseHTTPRequestHandler.send_error: an HTML error page
SendHtmlError(w, status) ==
    IF client = "connected" THEN WriteHead(w, status, "html") ELSE w

\* the server hands a parsed request line and headers to the handler
Receive(req) ==
    /\ http.pc = "idle"
    /\ http' = [http EXCEPT !.pc = IF req.method = "GET" THEN "do_GET"
                                   ELSE IF req.method = "POST" THEN "do_POST"
                                   ELSE "do_OPTIONS",
                            !.req = req]
    /\ UNCHANGED <<registryVars, routeVars, stream, client, wire>>

do_OPTIONS ==
    /\ http.pc = "do_OPTIONS"
    /\ wire' = SendJson(wire)
    /\ http' = [http EXCEPT !.pc = "finished"]
    /\ UNCHANGED <<registryVars, routeVars, stream, client>>

\* do_GET with _handle_list_models and _handle_reload_config; reload() runs
\* inside the handler
do_GET ==
    /\ http.pc = "do_GET"
    /\ http' = [http EXCEPT !.pc = "finished"]
    /\ IF http.req.path = "/reload"
       THEN /\ adapters' = LoadResult(config_file, host)
            /\ config_file' = IF config_file.kind = "missing" THEN DefaultConfig
                              ELSE config_file
            /\ loader' = [loader EXCEPT !.before = adapters,
                             !.source = IF config_file.kind = "missing" THEN DefaultConfig
                                        ELSE config_file,
                             !.raised = (config_file.kind \notin {"ok", "missing"})]
            /\ wire' = IF config_file.kind \in {"ok", "missing"}
                       THEN SendJson(wire) ELSE SendError(wire, 500)
       ELSE /\ UNCHANGED <<adapters, config_file, loader>>
            /\ wire' = IF http.req.path \in {"/v1/models", "/health"}
                       THEN SendJson(wire) ELSE SendError(wire, 404)
    /\ UNCHANGED <<hostVars, seen, routeVars, stream, client>>

do_POST ==
    /\ http.pc = "do_POST"
    /\ IF http.req.path = ChatPath
       THEN /\ http' = [http EXCEPT !.pc = "parse"]
            /\ wire' = wire
       ELSE /\ http' = [http EXCEPT !.pc = "finished"]
            /\ wire' = SendError(wire, 404)
    /\ UNCHANGED <<registryVars, routeVars, stream, client>>

\* phase 1 of _handle_chat_completions (lines 253-298): the status it
\* answers with, 0 when the request goes on to phase 2
ParseRequest_NoModelCheck(req) ==
    IF req.content_length = "nonnumeric" THEN 400
    ELSE IF req.content_length \in {"absent", "zero"} THEN 400
    ELSE IF req.body \in {"invalid_utf8", "invalid_json"} THEN 400
    ELSE IF req.body = "non_object" THEN 400
    ELSE 0

ParseRequest(req) ==
    IF req.content_length = "nonnumeric" THEN 400
    ELSE IF req.content_length \in {"absent", "zero"} THEN 400
    ELSE IF req.body \in {"invalid_utf8", "invalid_json"} THEN 400
    ELSE IF req.body = "non_object" THEN 400
    ELSE IF req.model \in {NoneStr, ""} THEN 400
    ELSE 0

ChatParse ==
    /\ http.pc = "parse"
    /\ IF ParseRequest(http.req) # 0
       THEN /\ wire' = SendError(wire, ParseRequest(http.req))
            /\ http' = [http EXCEPT !.pc = "cleanup", !.response_sent = TRUE]
       ELSE /\ wire' = wire
            /\ http' = [http EXCEPT !.pc = "phase2"]
    /\ UNCHANGED <<registryVars, routeVars, stream, client>>

\* phase 2 (lines 302-308): the event loop, and the stream handler entered
ChatOpenLoop ==
    /\ http.pc = "phase2"
    /\ IF http.req.stream
       THEN /\ http' = [http EXCEPT !.pc = "stream", !.loop = "open"]
            /\ stream' = [StreamIdle EXCEPT !.pc = "preamble", !.model_id = http.req.model,
                                            !.budget = MaxChunks]
       ELSE /\ http' = [http EXCEPT !.pc = "routing", !.loop = "open"]
            /\ stream' = stream
    /\ UNCHANGED <<registryVars, routeVars, client, wire>>

\* loop.run_until_complete(wait_for(self.router.route(model_id, ...), 300))
ChatRoute ==
    /\ http.pc = "routing"
    /\ Route(http.req.model)

\* wait_for raising TimeoutError while the route call goes on
ChatTimeout_LeavesRouteRunning ==
    /\ http.pc = "routing"
    /\ route.pc \in {"once", "first", "sleep", "retry"}
    /\ route.result = None
    /\ route' = [route EXCEPT !.result = [kind |-> "timeout"]]
    /\ UNCHANGED <<calls, sleeps, registryVars, httpVars>>

\* the 300 s of wait_for run out: the route call is cancelled
ChatTimeout ==
    /\ http.pc = "routing"
    /\ route.pc \in {"once", "first", "sleep", "retry"}
    /\ route' = [route EXCEPT !.pc = "done", !.result = [kind |-> "timeout"]]
    /\ UNCHANGED <<calls, sleeps, registryVars, httpVars>>

\* the except clauses of lines 328-344, in order
StatusOf(result) ==
    IF result.kind = "return" THEN 200
    ELSE IF result.kind = "timeout" THEN 504
    ELSE IF result.error.type = "TimeoutError" THEN 504
    ELSE IF result.error.type = "ValueError" THEN 404
    ELSE 500

\* str(e) of an error raised by Router.route, as far as the substring
\* "api_key" goes: the router's message quotes the requested model id, an
\* upstream's authentication message may quote the key
ErrorText(error, model_id) ==
    IF error = ModelNotFound
    THEN (IF model_id = LeakyModelId THEN "names_api_key" ELSE "plain")
    ELSE IF "auth" \in error.msg THEN "names_api_key"
    ELSE "plain"

\* _sanitize_error: a message with "key" in it is replaced
_sanitize_error(error_msg) ==
    IF error_msg = "names_api_key" THEN "config_error" ELSE error_msg

\* the message of the envelope sent by lines 328-344
ErrorMessage(status, result, model_id) ==
    IF status = 504 THEN "plain"
    ELSE IF status = 404 THEN ErrorText(result.error, model_id)
    ELSE _sanitize_error(ErrorText(result.error, model_id))

\* _send_error(status, message)
SendErrorMessage(w, status, message) ==
    [SendError(w, status) EXCEPT
        !.leak = @ \/ (client = "connected" /\ message = "names_api_key")]

ChatRespond ==
    /\ http.pc = "routing"
    /\ route.pc = "done"
    /\ wire' = IF StatusOf(route.result) = 200 THEN SendJson(wire)
               ELSE SendErrorMessage(wire, StatusOf(route.result),
                        ErrorMessage(StatusOf(route.result), route.result, route.model_id))
    /\ http' = [http EXCEPT !.pc = "cleanup", !.response_sent = TRUE]
    /\ UNCHANGED <<registryVars, routeVars, stream, client>>

\* _handle_stream_response returned
ChatStreamReturn ==
    /\ http.pc = "stream"
    /\ stream.pc = "end"
    /\ http' = [http EXCEPT !.pc = "cleanup", !.response_sent = TRUE]
    /\ UNCHANGED <<registryVars, routeVars, stream, client, wire>>

Throwables == {"Exception", "GeneratorExit", "SystemExit", "KeyboardInterrupt"}

ChatPhases == {"parse", "phase2", "routing", "stream"}

\* whether the handler's except clauses catch b, raised at http.pc, without
\* raising it again
Catches(handler, pc, b) ==
    IF handler = "main" THEN TRUE
    ELSE IF b = "Exception" THEN TRUE
    ELSE IF b \in {"SystemExit", "KeyboardInterrupt"} THEN FALSE
    ELSE pc \notin {"do_GET", "do_OPTIONS"}

\* what the except clause that catches b writes
ThrowWrites(w, handler, pc, b) ==
    IF ~Catches(handler, pc, b) THEN w
    ELSE IF pc = "do_OPTIONS"
         THEN (IF handler = "main" THEN SendHtmlError(w, 500) ELSE w)
    ELSE IF pc = "do_GET"
         THEN (IF b = "Exception" THEN SendError(w, 500) ELSE SendHtmlError(w, 500))
    ELSE IF pc = "do_POST" THEN SendError(w, 500)
    ELSE IF http.response_sent THEN w ELSE SendError(w, 500)

\* a throwable is raised inside the handler: an ordinary exception outside
\* the parts that have their own model, or a BaseException anywhere
Throw(b) ==
    /\ http.pc \in {"do_GET", "do_OPTIONS", "do_POST"} \cup ChatPhases
    /\ b = "Exception" => http.pc \in {"do_GET", "do_OPTIONS", "do_POST", "phase2"}
    /\ http.pc = "stream" => stream.pc # "end"
    /\ wire' = ThrowWrites(wire, http.handler, http.pc, b)
    /\ http' = [http EXCEPT
                  !.thrown = b,
                  !.pc = IF http.pc \in ChatPhases THEN "cleanup"
                         ELSE IF Catches(http.handler, http.pc, b) THEN "finished"
                         ELSE "crashed",
                  !.response_sent = IF http.pc = "phase2" /\ b = "Exception" THEN TRUE ELSE @,
                  !.escaped = IF http.pc \notin ChatPhases /\ ~Catches(http.handler, http.pc, b)
                              THEN b ELSE @]
    /\ route' = IF route.pc \in {"once", "first", "sleep", "retry"}
                THEN [route EXCEPT !.pc = "cancelled"] ELSE route
    /\ stream' = IF stream.pc \in {"idle", "end"} THEN stream
                 ELSE [stream EXCEPT
                         !.pc = "aborted",
                         !.gen = IF http.handler = "main" /\ stream.pc \in {"loop", "finally"}
                                 THEN "closed" ELSE @]
    /\ UNCHANGED <<registryVars, calls, sleeps, client>>

\* a finally that is skipped when a throwable is on its way out
ChatCleanup_SkippedOnThrow ==
    /\ http.pc = "cleanup"
    /\ LET escapes == http.thrown # "none" /\ ~Catches(http.handler, "parse", http.thrown)
       IN  http' = [http EXCEPT !.pc = IF escapes THEN "crashed" ELSE "finished",
                                !.loop = IF @ = "open" /\ http.thrown = "none"
                                         THEN "closed" ELSE @,
                                !.escaped = IF escapes THEN http.thrown ELSE @]
    /\ UNCHANGED <<registryVars, routeVars, stream, client, wire>>

\* phase 3, the finally of _handle_chat_completions: the loop is closed;
\* then the throwable that was raised again leaves do_POST
ChatCleanup ==
    /\ http.pc = "cleanup"
    /\ LET escapes == http.thrown # "none" /\ ~Catches(http.handler, "parse", http.thrown)
       IN  http' = [http EXCEPT !.pc = IF escapes THEN "crashed" ELSE "finished",
                                !.loop = IF @ = "open" THEN "closed" ELSE @,
                                !.escaped = IF escapes THEN http.thrown ELSE @]
    /\ UNCHANGED <<registryVars, routeVars, stream, client, wire>>

\* the handler returned: the server takes the next connection
HttpFinish ==
    /\ http.pc = "finished"
    /\ http' = HttpIdle(http.handler)
    /\ stream' = StreamIdle
    /\ route' = RouteIdle
    /\ calls' = <<>>
    /\ sleeps' = <<>>
    /\ client' = "connected"
    /\ wire' = WireEmpty
    /\ UNCHANGED registryVars

\* "a" and "p" retry with the defaults, "b" has retry switched off
HttpConfig ==
    [kind |-> "ok",
     models |-> <<JDict(BindingA), JDict(BindingB @@ [retry |-> [enabled |-> FALSE]]),
                  JDict(BindingP)>>]

InitHttp ==
    /\ host = FullHost
    /\ converter = ConverterIdle
    /\ proc = ProcessIdle
    /\ config_file = HttpConfig
    /\ adapters = LoadResult(config_file, host)
    /\ loader = [LoaderIdle EXCEPT !.source = config_file]
    /\ seen = SeenNone
    /\ route = RouteIdle
    /\ calls = <<>>
    /\ sleeps = <<>>
    /\ \E handler \in {"main", "safe"} : http = HttpIdle(handler)
    /\ stream = StreamIdle
    /\ client = "connected"
    /\ wire = WireEmpty

NextHttp ==
    \/ \E req \in Requests : Receive(req)
    \/ do_OPTIONS
    \/ do_GET
    \/ do_POST
    \/ ChatParse
    \/ ChatOpenLoop
    \/ ChatRoute
    \/ CallOnce
    \/ FirstAttempt
    \/ BackoffSleep
    \/ RetryAttempt
    \/ ChatTimeout
    \/ ChatRespond
    \/ StreamPreamble
    \/ StreamGetAdapter
    \/ StreamIterate
    \/ StreamAfterLoop
    \/ StreamFinally
    \/ ChatStreamReturn
    \/ \E b \in Throwables : Throw(b)
    \/ ChatCleanup
    \/ ClientDisconnect
    \/ HttpFinish

SpecHttp == InitHttp /\ [][NextHttp]_vars

\* C6: no throwable raised while a request is handled leaves the handler:
\* the handler returns and the server goes on to the next request.
C6_NoThrowableEscapes ==
    /\ http.escaped = "none"
    /\ http.pc # "crashed"

\* a chat completion request that passed phase 1 for a model id with no
\* adapter in the registry, handled to the end with the client connected
UnknownModelAnswered ==
    /\ http.pc = "finished"
    /\ http.req.method = "POST" /\ http.req.path = ChatPath
    /\ http.req.content_length = "positive" /\ http.req.body = "object"
    /\ http.req.model \notin {NoneStr, ""}
    /\ ~(\E i \in 1..Len(adapters) : adapters[i].id = http.req.model)
    /\ http.thrown = "none"
    /\ client = "connected"

\* C8: a chat completion request for a model id with no adapter is answered
\* with status 404 and the invalid_request_error envelope, streamed or not.
C8_UnknownModelIs404 ==
    UnknownModelAnswered =>
        wire.heads = <<[status |-> 404, type |-> "invalid_request_error"]>>

\* the request bodies and headers that phase 1 must refuse
BadRequest(req) ==
    \/ req.content_length \in {"absent", "zero", "nonnumeric"}
    \/ req.body \in {"invalid_json", "non_object"}
    \/ req.model \in {NoneStr, ""}

\* C10: once phase 1 is over for a chat completion request with an empty
\* body, a malformed or non-object JSON body, a non-numeric Content-Length or
\* a missing or empty model, the answer is status 400 and there has been no
\* registry lookup, no adapter call and no event loop.
C10_BadRequestIs400 ==
    (/\ http.req.method = "POST" /\ http.req.path = ChatPath
     /\ BadRequest(http.req)
     /\ http.pc \notin {"do_POST", "parse"}
     /\ http.thrown = "none") =>
        /\ route = RouteIdle
        /\ calls = <<>>
        /\ stream = StreamIdle
        /\ http.loop = "none"
        /\ Len(wire.heads) <= 1
        /\ client = "connected" =>
              wire.heads = <<[status |-> 400, type |-> "invalid_request_error"]>>

C10_Witness ==
    /\ http.pc = "finished"
    /\ http.req.method = "POST" /\ http.req.path = ChatPath
    /\ http.req.content_length = "positive" /\ http.req.body = "object"
    /\ http.req.model = ""
    /\ http.req.stream
    /\ http.thrown = "none"
    /\ wire.heads = <<[status |-> 400, type |-> "invalid_request_error"]>>

-----------------------------------------------------------------------------
(* core/adapter/*.py: the errors adapter.chat raises                       *)

\* what can go wrong in a call of chat, by adapter family
ChatFailures(adapter_type) ==
    IF adapter_type \in {"openai_compat", "custom_http"}
    THEN {"timeout", "refused", "bad_credentials", "rate_limited", "http_5xx",
          "vendor_error"}
    ELSE IF adapter_type = "process" THEN {"unavailable", "executor"}
    ELSE {"timeout", "closed"}

\* The exception chat raises for a failure, as the retry engine sees it.
\* openai_compat, custom_http: every exception of the request is raised
\* again as Exception with a prefix and str(e); str of the total timeout's
\* asyncio.TimeoutError is empty. process: is_available() is looked up at
\* call time and its ValueError is raised outside any try; running the
\* command stops at the name ThreadPoolExecutor, which the module never
\* imports (a NameError, handled everywhere as Exception is). websocket:
\* the timeout message has no keyword of the classifier.
ChatError(adapter_type, failure) ==
    IF failure = "unavailable" THEN [msg |-> {}, type |-> "ValueError"]
    ELSE IF failure = "refused" THEN [msg |-> {"network"}, type |-> "Exception"]
    ELSE IF failure = "bad_credentials" THEN [msg |-> {"auth"}, type |-> "Exception"]
    ELSE IF failure = "rate_limited" THEN [msg |-> {"ratelimit"}, type |-> "Exception"]
    ELSE IF failure = "http_5xx" THEN [msg |-> {"server"}, type |-> "Exception"]
    ELSE [msg |-> {}, type |-> "Exception"]

AdapterErrors(adapter_type) ==
    {ChatError(adapter_type, failure) : failure \in ChatFailures(adapter_type)}

\* a non-streaming chat completion request for a registered model, handled
\* to the end with the client connected, whose adapter failed
AdapterFailureAnswered ==
    /\ http.pc = "finished"
    /\ http.req.method = "POST" /\ http.req.path = ChatPath
    /\ ~http.req.stream
    /\ http.thrown = "none"
    /\ client = "connected"
    /\ route.pc = "done"
    /\ route.adapter # None
    /\ route.result.kind = "raise"
    /\ route.result.error \in AdapterErrors(route.adapter.adapter_type)

\* C11: a non-streaming request is answered 404 only when the model id has
\* no adapter; every failure raised by a registered adapter is answered 500.
C11_AdapterFailureIs500 ==
    AdapterFailureAnswered =>
        wire.heads = <<[status |-> 500, type |-> "server_error"]>>

\* C12: no error body sent to a client contains "api_key" or "api key".
C12_ErrorBodiesClean == ~wire.leak

\* the route call of the request being handled was cut off by the ceiling
TimedOut == route.result = [kind |-> "timeout"]

\* C13: when the 300 s ceiling cuts Router.route off, no attempt and no
\* backoff sleep is started afterwards and the client is answered 504.
C13_TimeoutIs504 ==
    /\ [](TimedOut /\ http.pc \in {"cleanup", "finished"} /\ http.thrown = "none"
            /\ client = "connected"
          => wire.heads = <<[status |-> 504, type |-> "server_error"]>>)
    /\ [][TimedOut => /\ Len(calls') <= Len(calls)
                      /\ Len(sleeps') <= Len(sleeps)]_vars

C13_Witness ==
    /\ TimedOut
    /\ http.pc = "finished"
    /\ Len(calls) >= 1 /\ Len(sleeps) >= 1
    /\ wire.heads = <<[status |-> 504, type |-> "server_error"]>>

\* C14: an upstream timeout in a non-streaming call, as it reaches the retry
\* engine from the adapter, is retried: with retry enabled, route gives up
\* on such an error only after max_retries retries.
C14_TimeoutIsRetried ==
    (/\ route.pc = "done"
     /\ route.adapter # None
     /\ Get(RetryDictOf(route.adapter), "enabled", TRUE)
     /\ route.result.kind = "raise"
     /\ route.result.error = ChatError(route.adapter.adapter_type, "timeout"))
    => Len(calls) = route.max_retries + 1

\* the message of the error names a non-retryable cause
NamesNonRetryable(error) == error.msg \cap {"auth", "badrequest", "notfound"} # {}

-----------------------------------------------------------------------------
(* The stream handler in front of an openai_compat upstream that sends a   *)
(* given sequence of SSE lines                                              *)

Scripts == UNION {[1..n -> Frames] : n \in 0..MaxFrames}

InitSse ==
    /\ host = FullHost
    /\ converter = ConverterIdle
    /\ proc = ProcessIdle
    /\ config_file = [kind |-> "ok", models |-> <<JDict(BindingA)>>]
    /\ adapters = LoadFrom(<<>>, config_file.models, host)
    /\ loader = LoaderIdle
    /\ seen = SeenNone
    /\ route = RouteIdle
    /\ calls = <<>>
    /\ sleeps = <<>>
    /\ \E handler \in {"main", "safe"} :
          http = [HttpIdle(handler) EXCEPT !.pc = "stream", !.loop = "open"]
    /\ \E script \in Scripts, tail \in BOOLEAN :
          /\ tail => Len(script) > 0
          /\ stream = [StreamIdle EXCEPT !.pc = "preamble", !.model_id = BindingA.id,
                                         !.budget = Unbounded, !.scripted = TRUE,
                                         !.script = script, !.tail = tail]
    /\ client = "connected"
    /\ wire = WireEmpty

NextSse ==
    \/ StreamPreamble
    \/ StreamGetAdapter
    \/ StreamIterate
    \/ StreamAfterLoop
    \/ StreamFinally
    \/ ClientDisconnect

SpecSse == InitSse /\ [][NextSse]_vars

\* C16: in a stream without error, a [DONE] frame is written only after a
\* chunk with a finish_reason has been written.
C16_DoneFollowsTerminal ==
    (wire.done_frames > 0 /\ ~wire.error) => wire.terminal

\* C17: the data frames repeat upstream chunks in upstream order, each at
\* most once.
C17_UpstreamOrder ==
    \A i, j \in 1..Len(wire.log) : i < j => wire.log[i] < wire.log[j]

C17_Witness ==
    /\ stream.pc = "end"
    /\ wire.log = <<1, 2>>
    /\ wire.last = "done"

\* the upstream sends content lines without usage, then its terminal line,
\* and usage on that line or on a line of its own right after it
UpstreamSendsUsage(script) ==
    \E i \in 1..Len(script) :
        /\ script[i].kind = "finish"
        /\ \A k \in 1..(i - 1) : script[k].kind = "content" /\ script[k].usage # "value"
        /\ \/ script[i].usage = "value"
           \/ i < Len(script) /\ script[i + 1] = [kind |-> "empty", usage |-> "value"]

\* a stream that ran to its end with no stall, no failure and the client
\* connected
StreamRanClean ==
    /\ stream.pc = "end" /\ stream.scripted
    /\ client = "connected"
    /\ ~wire.error /\ ~wire.heartbeat

\* C18: usage sent by the upstream on or after its terminal chunk reaches
\* the client in a frame of the stream.
C18_UsageReachesClient ==
    (StreamRanClean /\ UpstreamSendsUsage(stream.script)) => wire.usage_frames >= 1

\* C19: at most one frame written to the client carries usage.
C19_AtMostOneUsage == wire.usage_frames <= 1

\* C20: after a heartbeat the stream goes on: the generator is still there
\* to deliver the chunks the upstream produces next.
C20_HeartbeatRecovers ==
    (stream.pc = "loop" /\ ~stream.done /\ wire.last = "heartbeat") => stream.gen = "live"

\* a write of a chunk, a heartbeat or [DONE] to the client has failed
WriteFailed == stream.write_failed \in {"chunk", "heartbeat", "done"}

\* C21: once a write of a chunk, a heartbeat or [DONE] has failed, the
\* handler writes nothing more, pulls no further chunk and has closed the
\* generator by the time it returns.
C21_DisconnectEndsStream ==
    WriteFailed =>
        /\ ~stream.wrote_after
        /\ stream.pc = "loop" => stream.done
        /\ stream.pc = "end" => stream.gen # "live"

\* the document the last load read cannot be parsed into an object
Unparseable == loader.source.kind \in {"invalid_json", "non_object"}

\* C22: a load of a document that is not JSON, or whose top level is not an
\* object, returns without raising and leaves the registry empty.
C22_UnparseableConfigTolerated ==
    (loader.pc = "idle" /\ Unparseable) =>
        /\ ~loader.raised
        /\ adapters = <<>>

-----------------------------------------------------------------------------
(* The retry engine under bindings that set the backoff parameters         *)

\* the RetryConfig route builds for an adapter (router.py 66-73)
RouteRetryConfig(adapter) ==
    IF RetryDictOf(adapter) # EmptyDict
    THEN create_retry_config_from_dict(RetryDictOf(adapter))
    ELSE RetryConfig

DelayDicts ==
    [max_retries : 1..MaxRetriesCfg,
     initial_delay : {Seconds(1), Seconds(4)},
     max_delay : {Seconds(2), Seconds(60)},
     exponential_base : {1, 2, 3},
     jitter : BOOLEAN]

DelayConfigs ==
    {<<JDict(BindingA @@ [retry |-> r]), JDict(BindingB @@ [retry |-> [enabled |-> FALSE]])>> :
        r \in DelayDicts \cup {EmptyDict}}

InitDelay ==
    /\ host = FullHost
    /\ converter = ConverterIdle
    /\ proc = ProcessIdle
    /\ \E models \in DelayConfigs :
          /\ config_file = [kind |-> "ok", models |-> models]
          /\ adapters = LoadFrom(<<>>, models, host)
    /\ loader = LoaderIdle
    /\ seen = SeenNone
    /\ route = RouteIdle
    /\ calls = <<>>
    /\ sleeps = <<>>
    /\ http = HttpIdle("main")
    /\ stream = StreamIdle
    /\ client = "connected"
    /\ wire = WireEmpty

SpecDelay == InitDelay /\ [][NextRetry]_vars

\* the delay of the i-th sleep of the route call, for a value of
\* random.random()
SleptDelay(i, random) == get_delay(RouteRetryConfig(route.adapter), sleeps[i], random)

\* C23: every delay the retry engine sleeps is at most max_delay, with and
\* without jitter.
C23_DelayWithinMax ==
    \A i \in 1..Len(sleeps), random \in Randoms :
        SleptDelay(i, random) <= RouteRetryConfig(route.adapter).max_delay

\* C24: with jitter off, the delay before the retry with index n is
\* min(initial_delay * base^n, max_delay), and delays do not decrease with n
\* for base >= 1.
C24_DelayIsCappedExponential ==
    LET config == RouteRetryConfig(route.adapter)
    IN  (sleeps # <<>> /\ ~config.jitter /\ config.exponential_base >= 1) =>
            \A i \in 1..Len(sleeps), random \in Randoms :
                /\ sleeps[i] = i - 1
                /\ LET exponential == config.initial_delay
                                         * Pow(config.exponential_base, sleeps[i])
                   IN  /\ exponential <= config.max_delay => SleptDelay(i, random) = exponential
                       /\ exponential > config.max_delay => SleptDelay(i, random) = config.max_delay
                /\ i > 1 => SleptDelay(i - 1, random) <= SleptDelay(i, random)

C24_Witness ==
    LET config == RouteRetryConfig(route.adapter)
    IN  /\ Len(sleeps) = 2
        /\ ~config.jitter
        /\ config.initial_delay < config.max_delay
        /\ config.initial_delay * config.exponential_base > config.max_delay
        /\ SleptDelay(1, 0) = Seconds(1) /\ SleptDelay(2, 0) = Seconds(2)

\* route resolved an adapter whose binding has retry.enabled false
RetryDisabled ==
    /\ route.pc # "idle"
    /\ route.adapter # None
    /\ ~Get(RetryDictOf(route.adapter), "enabled", TRUE)

\* C25: with retry.enabled false, route calls chat exactly once, never
\* sleeps, and returns that call's response or raises that call's error,
\* retryable or not.
C25_DisabledCallsOnce ==
    RetryDisabled =>
        /\ sleeps = <<>>
        /\ route.pc \in {"once", "done"}
        /\ route.pc = "once" => calls = <<>>
        /\ route.pc = "done" =>
              /\ Len(calls) = 1
              /\ calls[1].adapter = route.adapter.model_id
              /\ route.result.attempt = 1
              /\ route.result.kind = (IF calls[1].ok THEN "return" ELSE "raise")

C25_Witness ==
    /\ RetryDisabled
    /\ route.pc = "done"
    /\ route.result.kind = "raise"
    /\ is_retryable_error(route.result.error)
    /\ Len(calls) = 1 /\ sleeps = <<>>

\* the bindings of the configuration loaded last that have "enabled" false
DisabledIn(config) ==
    {e \in {config.models[i] : i \in 1..Len(config.models)} :
        isinstance_dict(e) /\ ~Get(e.d, "enabled", TRUE)}

\* C26: after the initial load and after every reload, each adapter of the
\* table is available and was built from an enabled binding of the file; no
\* disabled binding and no unavailable adapter is in the table.
C26_TableHoldsAvailableOnly ==
    loader.pc = "idle" =>
        \A i \in 1..Len(adapters) :
            LET adapter == adapters[i].adapter
            IN  /\ is_available(adapter, host) = "True"
                /\ Get(adapter.config, "enabled", TRUE)
                /\ JDict(adapter.config) \notin DisabledIn(loader.source)
                /\ \E k \in 1..Len(loader.source.models) :
                      loader.source.models[k] = JDict(adapter.config)

C26_Witness ==
    /\ loader.pc = "idle"
    /\ loader.before # <<>>
    /\ DisabledBinding \in DisabledIn(loader.source)
    /\ \E k \in 1..Len(loader.source.models) : loader.source.models[k] = CommandNotFound
    /\ Len(adapters) = 1
    /\ adapters[1].id = "a"

\* the value of adapter_type of the class _create_adapter builds for a
\* configured "adapter"
FamilyOf(config) ==
    LET adapter_type == Get(config, "adapter", "openai_compat")
    IN  IF adapter_type \in {"websocket", "websocket_xunfei"} THEN "websocket_xunfei"
        ELSE adapter_type

\* the bindings of a file that the loop registers, in file order
Registered(config, h) ==
    SelectSeq(config.models, LAMBDA e : LoadEntry(<<>>, e, h) # <<>>)

\* the ids a client may ask for: those of the file and the unknown ones
AskedIds ==
    ModelIds \cup {e.d.id : e \in {x \in {loader.source.models[i] :
                                            i \in 1..Len(loader.source.models)} :
                                    isinstance_dict(x) /\ "id" \in DOMAIN x.d}}

\* C27: with no reload in progress and ids unique in the file, list_models
\* has one entry per registered adapter, in the order of the file, owned_by
\* is the adapter's family, and an id is listed exactly when get_adapter
\* returns an adapter for it.
C27_ListMatchesTable ==
    (seen.op = "list_models" /\ ~seen.during) =>
        LET bindings == Registered(loader.source, host)
        IN  /\ Len(seen.models) = Len(adapters)
            /\ Len(seen.models) = Len(bindings)
            /\ \A i \in 1..Len(seen.models) :
                  /\ seen.models[i].id = bindings[i].d.id
                  /\ seen.models[i].owned_by = FamilyOf(bindings[i].d)
                  /\ seen.models[i].owned_by = adapters[i].adapter.adapter_type
                  /\ seen.models[i].object = "model"
                  /\ \A j \in 1..Len(seen.models) :
                        seen.models[i].id = seen.models[j].id => i = j
            /\ \A id \in AskedIds :
                  (\E i \in 1..Len(seen.models) : seen.models[i].id = id)
                      <=> get_adapter(adapters, id) # None

C27_Witness ==
    /\ seen.op = "list_models" /\ ~seen.during
    /\ loader.before # <<>>
    /\ Len(seen.models) = 3
    /\ seen.models[1] = [id |-> "w", object |-> "model", created |-> 0,
                         owned_by |-> "websocket_xunfei"]
    /\ seen.models[3].id = "a"

\* C28: every request an adapter builds names the binding's configured
\* upstream model, when one is set, and not the routing id.
C28_UpstreamModelSent ==
    \A i \in 1..Len(calls) :
        "model" \in DOMAIN route.adapter.config =>
            calls[i].model = route.adapter.config.model

\* the chat completions handler has returned, or a throwable has left it
ChatExited ==
    /\ http.pc \in {"finished", "crashed"}
    /\ http.req.method = "POST" /\ http.req.path = ChatPath

\* C29: when the chat completions handler exits after it created an event
\* loop, whatever the path, the route call is no longer running on the loop
\* and the loop is closed.
C29_LoopTornDown ==
    (ChatExited /\ http.loop # "none") =>
        /\ http.loop = "closed"
        /\ route.pc \notin {"once", "first", "sleep", "retry"}
        /\ stream.pc \notin {"preamble", "lookup", "loop", "finally"}

C29_Witness ==
    /\ ChatExited
    /\ http.loop = "closed"
    /\ http.thrown \in {"SystemExit", "KeyboardInterrupt"}
    /\ route.pc = "cancelled"
    /\ Len(calls) = 1

\* chat_stream is suspended at the yield of a chunk with a finish_reason
TerminalYielded ==
    /\ stream.scripted
    /\ stream.gen = "live"
    /\ stream.last = "terminal"

\* C30: once chat_stream has yielded a chunk with a finish_reason, resuming
\* it yields no further chunk: it returns.
C30_StopsAfterTerminal ==
    TerminalYielded => NextChunk.kind = "stop"

\* the upstream line is a keepalive: "choices" empty and no usage object
Keepalive(f) == f.kind = "empty" /\ f.usage # "value"

\* C31: no data frame repeats a keepalive line of the upstream, wherever
\* the line stands in the stream.
C31_KeepalivesSkipped ==
    stream.scripted =>
        \A i \in 1..Len(wire.log) : ~Keepalive(stream.script[wire.log[i]])

-----------------------------------------------------------------------------
(* core/adapter/converters: the token caches of Baidu and Zhipu            *)
(* The clock counts hours.                                                 *)

MaxClock == 26

MaxFetches == 3

\* "- 3600": a cached token is dropped an hour before it expires
EarlyExpiry == 1

\* token_data.get("expires_in", 2592000): thirty days
DefaultExpiresIn == 720

\* exp_seconds = 24 * 3600
ZhipuExpSeconds == 24

\* config["api_key"] of a converter: well formed for Baidu, for Zhipu, or
\* without a separator
ApiKeys == {"id|secret", "id.secret", "nosep"}

\* len(api_key.split(sep)) == 2
WellFormedKey(family, api_key) ==
    api_key = (IF family = "baidu" THEN "id|secret" ELSE "id.secret")

\* api_key in cache and time.time() < token_data["expires_at"]
CacheHit(cache, api_key, now) ==
    api_key \in DOMAIN cache /\ now < cache[api_key].expires_at

\* a cache entry kept for its whole lifetime
CacheWrite_FullLifetime(cache, api_key, token, now, lifetime) ==
    [k \in DOMAIN cache \cup {api_key} |->
        IF k = api_key
        THEN [token |-> token, expires_at |-> now + lifetime,
              fetched_at |-> now, lifetime |-> lifetime]
        ELSE cache[k]]

\* cache[api_key] = {token, "expires_at": time.time() + lifetime - 3600};
\* fetched_at and lifetime are history
CacheWrite(cache, api_key, token, now, lifetime) ==
    [k \in DOMAIN cache \cup {api_key} |->
        IF k = api_key
        THEN [token |-> token, expires_at |-> now + lifetime - EarlyExpiry,
              fetched_at |-> now, lifetime |-> lifetime]
        ELSE cache[k]]

\* no call of _get_access_token / _get_token made yet
NoCall == [at |-> 0, prior |-> EmptyDict, after_failure |-> FALSE, result |-> "none", token |-> 0]

\* a converter just constructed: self._access_token_cache = {}. last: the
\* latest call, with the clock and the cache it found and what it returned
ConverterStart(family, api_key) ==
    [pc |-> "idle", family |-> family, api_key |-> api_key, now |-> 0,
     cache |-> EmptyDict, fetches |-> 0, last |-> NoCall]

\* what the token endpoint of Baidu answers: a status that is not 200, a
\* body with "error", a body with an empty access_token, or a token with or
\* without expires_in (in hours)
BaiduAnswers ==
    {[kind |-> k, expires_in |-> 0] : k \in {"http_error", "error_field", "empty_token"}}
    \cup {[kind |-> "token", expires_in |-> e] : e \in {1, 2, 3, DefaultExpiresIn}}

\* time passes
Tick ==
    /\ converter.pc \in {"idle", "fetching"}
    /\ converter.now < MaxClock
    /\ converter' = [converter EXCEPT !.now = @ + 1]
    /\ UNCHANGED <<host, proc, config_file, adapters, loader, seen, routeVars, httpVars>>

\* BaiduConverter._get_access_token up to the request to the token endpoint
\* (lines 32-56), ZhipuConverter._get_token as a whole (lines 27-69):
\* jwt.encode returns a token or raises
GetToken ==
    /\ converter.pc = "idle"
    /\ LET c == converter
           call == [at |-> c.now, prior |-> c.cache,
                    after_failure |-> c.last.result = "raise"]
           returned(result, token) == call @@ [result |-> result, token |-> token]
       IN  IF CacheHit(c.cache, c.api_key, c.now)
           THEN converter' = [c EXCEPT !.last = returned("cached", c.cache[c.api_key].token)]
           ELSE IF ~WellFormedKey(c.family, c.api_key)
           THEN converter' = [c EXCEPT !.last = returned("raise", 0)]
           ELSE IF c.family = "baidu" /\ ~host.HAS_AIOHTTP
           THEN converter' = [c EXCEPT !.last = returned("raise", 0)]
           ELSE /\ c.fetches < MaxFetches
                /\ IF c.family = "baidu"
                   THEN converter' = [c EXCEPT !.pc = "fetching",
                                               !.last = returned("pending", 0)]
                   ELSE \/ converter' =
                             [c EXCEPT !.fetches = @ + 1,
                                       !.cache = CacheWrite(c.cache, c.api_key, c.fetches + 1,
                                                            c.now, ZhipuExpSeconds),
                                       !.last = returned("fetched", c.fetches + 1)]
                        \/ converter' = [c EXCEPT !.last = returned("raise", 0)]
    /\ UNCHANGED <<host, proc, config_file, adapters, loader, seen, routeVars, httpVars>>

\* the answer of the token endpoint written to the cache before it is looked at
TokenResponse_CachesFirst(answer) ==
    /\ converter.pc = "fetching"
    /\ LET c == converter
       IN  converter' =
               [c EXCEPT !.pc = "idle", !.fetches = @ + 1,
                         !.cache = CacheWrite(c.cache, c.api_key, c.fetches + 1, c.now,
                                              answer.expires_in),
                         !.last = [@ EXCEPT !.result = IF answer.kind = "token"
                                                       THEN "fetched" ELSE "raise",
                                            !.token = IF answer.kind = "token"
                                                      THEN c.fetches + 1 ELSE 0]]
    /\ UNCHANGED <<host, proc, config_file, adapters, loader, seen, routeVars, httpVars>>

\* BaiduConverter._get_access_token from the answer of the token endpoint
\* on (lines 57-80)
TokenResponse(answer) ==
    /\ converter.pc = "fetching"
    /\ LET c == converter
       IN  IF answer.kind = "token"
           THEN converter' =
                    [c EXCEPT !.pc = "idle", !.fetches = @ + 1,
                              !.cache = CacheWrite(c.cache, c.api_key, c.fetches + 1, c.now,
                                                   answer.expires_in),
                              !.last = [@ EXCEPT !.result = "fetched",
                                                 !.token = c.fetches + 1]]
           ELSE converter' = [c EXCEPT !.pc = "idle", !.last = [@ EXCEPT !.result = "raise"]]
    /\ UNCHANGED <<host, proc, config_file, adapters, loader, seen, routeVars, httpVars>>

InitToken ==
    /\ host = FullHost
    /\ \E family \in {"baidu", "zhipu"}, api_key \in ApiKeys :
          converter = ConverterStart(family, api_key)
    /\ proc = ProcessIdle
    /\ config_file = NoConfig
    /\ adapters = <<>>
    /\ loader = LoaderIdle
    /\ seen = SeenNone
    /\ route = RouteIdle
    /\ calls = <<>>
    /\ sleeps = <<>>
    /\ http = HttpIdle("main")
    /\ stream = StreamIdle
    /\ client = "connected"
    /\ wire = WireEmpty

NextToken ==
    \/ Tick
    \/ GetToken
    \/ \E answer \in BaiduAnswers : TokenResponse(answer)

SpecToken == InitToken /\ [][NextToken]_vars

\* the entry the latest call found in the cache was still within its
\* lifetime less the hour
FoundFresh ==
    LET last == converter.last
        key == converter.api_key
    IN  /\ key \in DOMAIN last.prior
        /\ last.prior[key].fetched_at <= last.at
        /\ last.at < last.prior[key].fetched_at + last.prior[key].lifetime - EarlyExpiry

\* C32: a call made before the cached token's lifetime less one hour has
\* run out returns the cached token without a fetch; a call made at or after
\* that moment goes for a new token (Baidu: lifetime expires_in; Zhipu: 24 h).
C32_EarlyExpiryHonoured ==
    converter.last.result # "none" =>
        LET last == converter.last
        IN  /\ FoundFresh =>
                /\ last.result = "cached"
                /\ last.token = last.prior[converter.api_key].token
                /\ converter.cache = last.prior
                /\ converter.pc = "idle"
            /\ ~FoundFresh => last.result \in {"pending", "fetched", "raise"}
            /\ (last.result = "fetched" /\ converter.api_key \in DOMAIN last.prior) =>
                  last.token # last.prior[converter.api_key].token

C32_Witness ==
    LET last == converter.last
        key == converter.api_key
    IN  /\ last.result = "fetched"
        /\ key \in DOMAIN last.prior
        /\ last.at = last.prior[key].fetched_at + last.prior[key].lifetime - EarlyExpiry
        /\ last.prior[key].lifetime > EarlyExpiry

\* C38: a call that fails leaves the cache as it found it and raises, and
\* the call after a failed one does not answer from the cache.
C38_FailedFetchKeepsCache ==
    /\ converter.last.result = "raise" =>
          /\ converter.cache = converter.last.prior
          /\ converter.pc = "idle"
    /\ (converter.last.after_failure /\ converter.last.result # "none") =>
          converter.last.result \in {"pending", "fetched", "raise"}

C38_Witness ==
    /\ converter.family = "baidu"
    /\ converter.last.result = "raise"
    /\ converter.last.after_failure
    /\ converter.api_key \in DOMAIN converter.cache
    /\ converter.fetches = 1

-----------------------------------------------------------------------------
(* core/adapter/process_adapter.py: one call of ProcessAdapter.chat        *)

\* what the configured command does when it is run: it answers on stdout,
\* exits with a code that is not 0, or goes on past the timeout
Behaviours == {"answers", "fails", "hangs"}

\* the bindings of a process adapter: the command, the formats, the timeout
ProcessConfigs ==
    {[id |-> "p", adapter |-> "process", command |-> c, input_format |-> i,
      output_format |-> o, timeout |-> t] :
        c \in {"", "/usr/bin/llm", "/opt/absent"},
        i \in {"json", "prompt", "openai", "last_user"},
        o \in {"json", "text"},
        t \in {1, 120}}

\* chat(request, timeout) entered. to_thread: asyncio has to_thread
\* (Python 3.9 and later). child: the process started by subprocess.Popen,
\* "none" as long as there is none.
ProcessStart(config, behaviour, timeout, to_thread) ==
    [pc |-> "chat", adapter |-> ProcessAdapter(config), behaviour |-> behaviour,
     timeout |-> timeout, to_thread |-> to_thread, input |-> "none",
     child |-> "none", result |-> "none"]

\* chat, lines 304-308: the availability test and the input of the command
ProcessChat ==
    /\ proc.pc = "chat"
    /\ IF is_available(proc.adapter, host) # "True"
       THEN proc' = [proc EXCEPT !.pc = "done", !.result = "ValueError"]
       ELSE proc' = [proc EXCEPT !.pc = "to_thread",
                                 !.input = Get(proc.adapter.config, "input_format", "json")]
    /\ UNCHANGED <<host, converter, config_file, adapters, loader, seen, routeVars, httpVars>>

\* _run_process_with_timeout: run_process is defined, then the with
\* statement looks up ThreadPoolExecutor, a name the module never binds; the
\* NameError is raised before the executor exists and before run_process,
\* which holds the Popen call, is submitted
_run_process_with_timeout == [result |-> "NameError", child |-> "none"]

\* chat, lines 313-319: await asyncio.to_thread(...); where asyncio has no
\* to_thread the AttributeError leads to run_in_executor
ProcessToThread ==
    /\ proc.pc = "to_thread"
    /\ IF proc.to_thread
       THEN proc' = [proc EXCEPT !.pc = "done",
                                 !.result = _run_process_with_timeout.result,
                                 !.child = _run_process_with_timeout.child]
       ELSE proc' = [proc EXCEPT !.pc = "run_in_executor"]
    /\ UNCHANGED <<host, converter, config_file, adapters, loader, seen, routeVars, httpVars>>

\* chat, lines 320-329: loop.run_in_executor(None, _run_process_with_timeout, ...)
ProcessRunInExecutor ==
    /\ proc.pc = "run_in_executor"
    /\ proc' = [proc EXCEPT !.pc = "done",
                            !.result = _run_process_with_timeout.result,
                            !.child = _run_process_with_timeout.child]
    /\ UNCHANGED <<host, converter, config_file, adapters, loader, seen, routeVars, httpVars>>

InitProcess ==
    /\ host = FullHost
    /\ converter = ConverterIdle
    /\ \E config \in ProcessConfigs, behaviour \in Behaviours,
          timeout \in {0, 1}, to_thread \in BOOLEAN :
          proc = ProcessStart(config, behaviour, timeout, to_thread)
    /\ config_file = NoConfig
    /\ adapters = <<>>
    /\ loader = LoaderIdle
    /\ seen = SeenNone
    /\ route = RouteIdle
    /\ calls = <<>>
    /\ sleeps = <<>>
    /\ http = HttpIdle("main")
    /\ stream = StreamIdle
    /\ client = "connected"
    /\ wire = WireEmpty

NextProcess ==
    \/ ProcessChat
    \/ ProcessToThread
    \/ ProcessRunInExecutor

SpecProcess == InitProcess /\ [][NextProcess]_vars

\* chat has returned or raised for a command that is installed and does
\* not answer within the timeout
HangingCallEnded ==
    /\ proc.pc = "done"
    /\ is_available(proc.adapter, host) = "True"
    /\ proc.behaviour = "hangs"

\* C33: a call whose command outlasts the timeout ends with a timeout error
\* and its child killed, and no child is running once chat has ended.
C33_TimeoutKillsChild ==
    /\ HangingCallEnded => (proc.result = "timeout" /\ proc.child = "killed")
    /\ proc.pc = "done" => proc.child # "running"

\* a streaming chat completion request is being handled, or has just been
StreamRequest ==
    /\ http.req.stream
    /\ http.pc \in {"stream", "cleanup", "finished", "crashed"}

\* C34: a streaming request calls adapter.chat_stream at most once and never
\* enters the retry engine; when the upstream call fails, the stream handed
\* to a connected client ends with an error frame and [DONE] after it.
C34_StreamSingleAttempt ==
    StreamRequest =>
        /\ stream.attempts <= 1
        /\ route = RouteIdle /\ calls = <<>> /\ sleeps = <<>>
        /\ (stream.failed /\ stream.pc = "end" /\ client = "connected") =>
              /\ wire.error
              /\ wire.last = "done"
              /\ stream.attempts = 1

C34_Witness ==
    /\ StreamRequest
    /\ http.pc = "finished"
    /\ stream.failed /\ stream.pc = "end" /\ client = "connected"
    /\ stream.iteration > 1
    /\ wire.error /\ wire.last = "done"

\* C35: while a chat completions request is handled, at most one status
\* line and header block is written to the client.
C35_OneResponseHead ==
    (http.req.method = "POST" /\ http.req.path = ChatPath) => Len(wire.heads) <= 1

\* the loop has ended at its bound with nothing terminal sent and the
\* client still there
RunawayStopped ==
    /\ stream.pc \in {"finally", "end"}
    /\ stream.iteration = max_iterations
    /\ ~wire.terminal /\ ~wire.error
    /\ client = "connected"

\* C36: the loop makes at most 10 000 passes, heartbeats included, and a
\* stream that reaches the bound without a terminal chunk is ended with
\* [DONE] even though the upstream has more to send.
C36_RunawayGuard ==
    /\ stream.iteration <= max_iterations
    /\ (stream.pc = "loop" /\ stream.iteration = max_iterations) => ~ENABLED StreamIterate
    /\ RunawayStopped => (wire.last = "done" /\ wire.done_frames >= 1)

C36_Witness ==
    /\ RunawayStopped
    /\ stream.gen = "live"
    /\ wire.last = "done" /\ wire.done_frames = 1

-----------------------------------------------------------------------------
(* core/adapter/converters/anthropic_converter.py and cohere_converter.py: *)
(* convert_request, one pass of its loop over request.messages per step.   *)
(* A text is the sequence of its pieces, so that joining texts is \o.      *)

MaxMessages == 3

Roles == {"system", "user", "assistant"}

\* a content that is a str, and one that is a list with one text part
Str(text) == [type |-> "str", text |-> text, parts |-> <<>>]

Parts(parts) == [type |-> "list", text |-> <<>>, parts |-> parts]

TextPart(text) == [type |-> "text", text |-> text]

Contents == {Str(<<"x">>), Str(<<"y">>), Parts(<<TextPart(<<"z">>)>>)}

Messages == [role : Roles, content : Contents]

\* the attributes of the dataclass OpenAIChatRequest (base_adapter.py 19-31)
DataclassFields ==
    {"model", "messages", "temperature", "max_tokens", "stream", "top_p",
     "frequency_penalty", "presence_penalty", "stop", "user"}

\* the request the handlers build, and request objects that carry the
\* sampling and tool attributes on top of it
RequestAttrs ==
    {DataclassFields, DataclassFields \cup {"top_k"}, DataclassFields \cup {"top_k", "tools"}}

NoConversion == [kind |-> "none"]

AttributeError == [kind |-> "AttributeError"]

ConvertStart(family, attrs, messages) ==
    [pc |-> IF family = "anthropic" THEN "params" ELSE "loop",
     family |-> family, attrs |-> attrs, request_messages |-> messages, i |-> 1,
     system_prompt |-> <<>>, messages |-> <<>>,
     message |-> <<>>, chat_history |-> <<>>,
     result |-> NoConversion]

\* anthropic_converter.py 21-35: request.top_k is read whatever the request
AnthropicParams ==
    /\ converter.pc = "params"
    /\ converter' = IF "top_k" \in converter.attrs
                    THEN [converter EXCEPT !.pc = "loop"]
                    ELSE [converter EXCEPT !.pc = "done", !.result = AttributeError]
    /\ UNCHANGED <<host, proc, config_file, adapters, loader, seen, routeVars, httpVars>>

RECURSIVE ClaudeBlocks(_)
\* lines 61-79: the text blocks of a list content
ClaudeBlocks(parts) ==
    IF parts = <<>> THEN <<>>
    ELSE (IF Head(parts).type = "text"
          THEN <<[type |-> "text", text |-> Head(parts).text]>>
          ELSE <<>>) \o ClaudeBlocks(Tail(parts))

\* lines 50-81: the Claude message of a message that is not a system one
claude_message(msg) ==
    [role |-> msg.role,
     content |-> IF msg.content.type = "str"
                 THEN <<[type |-> "text", text |-> msg.content.text]>>
                 ELSE ClaudeBlocks(msg.content.parts)]

\* line 46: system_prompt = content if isinstance(content, str) else ""
SystemPrompt(system_prompt, content) ==
    IF content.type = "str" THEN content.text ELSE <<>>

\* one pass of the loop of lines 41-81
AnthropicPass ==
    /\ converter.pc = "loop" /\ converter.family = "anthropic"
    /\ converter.i <= Len(converter.request_messages)
    /\ LET msg == converter.request_messages[converter.i]
       IN  converter' =
             IF msg.role = "system"
             THEN [converter EXCEPT !.i = @ + 1,
                                    !.system_prompt = SystemPrompt(@, msg.content)]
             ELSE [converter EXCEPT !.i = @ + 1,
                                    !.messages = Append(@, claude_message(msg))]
    /\ UNCHANGED <<host, proc, config_file, adapters, loader, seen, routeVars, httpVars>>

\* lines 83-108: "system" is set when the prompt is not empty; request.tools
\* is read whatever the request
AnthropicBuild ==
    /\ converter.pc = "loop" /\ converter.family = "anthropic"
    /\ converter.i > Len(converter.request_messages)
    /\ converter' =
         [converter EXCEPT
            !.pc = "done",
            !.result = IF "tools" \notin converter.attrs THEN AttributeError
                       ELSE [kind |-> "request", messages |-> converter.messages,
                             has_system |-> converter.system_prompt # <<>>,
                             system |-> converter.system_prompt]]
    /\ UNCHANGED <<host, proc, config_file, adapters, loader, seen, routeVars, httpVars>>

RECURSIVE JoinTexts(_)
\* cohere_converter.py 32-36: " ".join(text_parts)
JoinTexts(parts) ==
    IF parts = <<>> THEN <<>>
    ELSE IF Head(parts).type # "text" THEN JoinTexts(Tail(parts))
    ELSE IF JoinTexts(Tail(parts)) = <<>> THEN Head(parts).text
    ELSE Head(parts).text \o <<" ">> \o JoinTexts(Tail(parts))

\* lines 29-38
text_content(content) ==
    IF content.type = "str" THEN content.text ELSE JoinTexts(content.parts)

\* line 45
cohere_role(role) ==
    IF role = "assistant" THEN "CHATBOT" ELSE IF role = "system" THEN "SYSTEM" ELSE "USER"

\* lines 40-49: a user message replaces message, any other is appended to
\* chat_history
CohereTurn(c, msg) ==
    IF msg.role = "user"
    THEN [c EXCEPT !.i = @ + 1, !.message = text_content(msg.content)]
    ELSE [c EXCEPT !.i = @ + 1,
                   !.chat_history = Append(@, [role |-> cohere_role(msg.role),
                                               message |-> text_content(msg.content)])]

\* one pass of the loop of lines 24-49
CoherePass ==
    /\ converter.pc = "loop" /\ converter.family = "cohere"
    /\ converter.i <= Len(converter.request_messages)
    /\ converter' = CohereTurn(converter, converter.request_messages[converter.i])
    /\ UNCHANGED <<host, proc, config_file, adapters, loader, seen, routeVars, httpVars>>

\* lines 51-74
CohereBuild ==
    /\ converter.pc = "loop" /\ converter.family = "cohere"
    /\ converter.i > Len(converter.request_messages)
    /\ converter' = [converter EXCEPT
                       !.pc = "done",
                       !.result = [kind |-> "request", message |-> converter.message,
                                   chat_history |-> converter.chat_history]]
    /\ UNCHANGED <<host, proc, config_file, adapters, loader, seen, routeVars, httpVars>>

MessageLists == UNION {[1..n -> Messages] : n \in 0..MaxMessages}

InitConvert ==
    /\ host = FullHost
    /\ \E family \in {"anthropic", "cohere"}, attrs \in RequestAttrs, messages \in MessageLists :
          /\ family = "cohere" => attrs = DataclassFields
          /\ converter = ConvertStart(family, attrs, messages)
    /\ proc = ProcessIdle
    /\ config_file = NoConfig
    /\ adapters = <<>>
    /\ loader = LoaderIdle
    /\ seen = SeenNone
    /\ route = RouteIdle
    /\ calls = <<>>
    /\ sleeps = <<>>
    /\ http = HttpIdle("main")
    /\ stream = StreamIdle
    /\ client = "connected"
    /\ wire = WireEmpty

NextConvert ==
    \/ AnthropicParams
    \/ AnthropicPass
    \/ AnthropicBuild
    \/ CoherePass
    \/ CohereBuild

SpecConvert == InitConvert /\ [][NextConvert]_vars

RECURSIVE SystemTexts(_)
\* the contents of the system messages of a request, joined in order
SystemTexts(messages) ==
    IF messages = <<>> THEN <<>>
    ELSE (IF Head(messages).role = "system" THEN Head(messages).content.text ELSE <<>>)
         \o SystemTexts(Tail(messages))

RECURSIVE NonSystem(_)
\* the messages of a request that are not system messages, in order
NonSystem(messages) ==
    IF messages = <<>> THEN <<>>
    ELSE (IF Head(messages).role = "system" THEN <<>> ELSE <<Head(messages)>>)
         \o NonSystem(Tail(messages))

\* convert_request of the Anthropic converter has ended for a request whose
\* system contents are all strings
AnthropicConverted ==
    /\ converter.pc = "done" /\ converter.family = "anthropic"
    /\ \A i \in 1..Len(converter.request_messages) :
          converter.request_messages[i].role = "system"
              => converter.request_messages[i].content.type = "str"

\* C39: the Anthropic request has one system string, the contents of all the
\* system messages joined in order, and its messages are the messages that
\* are not system ones, in their order.
C39_AnthropicSplitsSystem ==
    AnthropicConverted =>
        /\ converter.result.kind = "request"
        /\ converter.result.system = SystemTexts(converter.request_messages)
        /\ Len(converter.result.messages) = Len(NonSystem(converter.request_messages))
        /\ \A i \in 1..Len(converter.result.messages) :
              converter.result.messages[i] = claude_message(NonSystem(converter.request_messages)[i])

\* the index of the last user message of a request, 0 if there is none
LastUser(messages) ==
    IF \E i \in 1..Len(messages) : messages[i].role = "user"
    THEN CHOOSE i \in 1..Len(messages) :
            /\ messages[i].role = "user"
            /\ \A j \in (i + 1)..Len(messages) : messages[j].role # "user"
    ELSE 0

\* the turn a message is in chat_history
Turn(msg) ==
    [role |-> IF msg.role = "user" THEN "USER"
              ELSE IF msg.role = "assistant" THEN "CHATBOT" ELSE "SYSTEM",
     message |-> text_content(msg.content)]

\* C40: the last user message is the message, and every message before it,
\* the earlier user messages too, is in chat_history in the original order
\* under the role USER, CHATBOT or SYSTEM.
C40_CohereLosesNoTurn ==
    (converter.pc = "done" /\ converter.family = "cohere") =>
        LET messages == converter.request_messages
            last == LastUser(messages)
        IN  /\ converter.result.kind = "request"
            /\ last > 0 =>
                  /\ converter.result.message = text_content(messages[last].content)
                  /\ Len(converter.result.chat_history) >= last - 1
                  /\ \A i \in 1..(last - 1) :
                        converter.result.chat_history[i] = Turn(messages[i])

====
